---- MODULE Spec2Model ----
(***************************************************************************)
(* Model of kmotokubota/fx_handson.                                        *)
(*                                                                         *)
(* fx_handson_app.py: load_fx_data hands a date-ordered price frame to     *)
(* calculate_technical_indicators, which copies it and adds the indicator  *)
(* columns to the copy.                                                    *)
(*                                                                         *)
(* Numbers.  The code computes in IEEE floating point.  The model carries  *)
(* the real-number value of every float exactly, as a fraction n/d, and    *)
(* keeps the IEEE special values: d = 0 stands for +inf (n = 1), -inf      *)
(* (n = -1) and NaN (n = 0), the "no value" sentinel of pandas.  Rounding  *)
(* error of the floats is not modelled.                                    *)
(***************************************************************************)
EXTENDS Integers, Sequences, FiniteSets, TLC

(***************************************************************************)
(* Extended rationals: the values of float64 cells.                        *)
(***************************************************************************)
Abs(n) == IF n < 0 THEN -n ELSE n

Sign(n) == IF n < 0 THEN -1 ELSE IF n > 0 THEN 1 ELSE 0

Max2(a, b) == IF a > b THEN a ELSE b

RECURSIVE GCD(_, _)
GCD(a, b) == IF b = 0 THEN a ELSE GCD(b, a % b)

Norm(n, d) ==
    IF d = 0 THEN [n |-> Sign(n), d |-> 0]
    ELSE LET g == GCD(Abs(n), Abs(d))
             s == IF d < 0 THEN -1 ELSE 1
         IN  [n |-> s * (n \div g), d |-> s * (d \div g)]

R(n) == [n |-> n, d |-> 1]

Zero == [n |-> 0, d |-> 1]

NaN == [n |-> 0, d |-> 0]

PosInf == [n |-> 1, d |-> 0]

NegInf == [n |-> -1, d |-> 0]

IsNaN(x) == x.n = 0 /\ x.d = 0

IsInf(x) == x.n # 0 /\ x.d = 0

IsFinite(x) == x.d # 0

Neg(x) == [n |-> -x.n, d |-> x.d]

Add(x, y) ==
    IF IsInf(x) /\ IsInf(y) THEN (IF x.n = y.n THEN x ELSE NaN)
    ELSE IF x.d = 0 \/ y.d = 0 THEN Norm(x.n * y.d + y.n * x.d, 0)
    ELSE LET g == GCD(x.d, y.d)
         IN  Norm(x.n * (y.d \div g) + y.n * (x.d \div g), (x.d \div g) * y.d)

Sub(x, y) == Add(x, Neg(y))

Mul(x, y) ==
    IF x.d = 0 \/ y.d = 0 THEN Norm(x.n * y.n, 0)
    ELSE LET g1 == GCD(Abs(x.n), y.d)
             g2 == GCD(Abs(y.n), x.d)
         IN  IF x.n = 0 \/ y.n = 0 THEN Zero
             ELSE Norm((x.n \div g1) * (y.n \div g2), (x.d \div g2) * (y.d \div g1))

\* a division that guards against a zero divisor by answering 0
Div_zero_guard(x, y) == IF y.n = 0 THEN Zero ELSE Mul(x, Norm(y.d, y.n))

\* IEEE division: x/0 is +-inf, 0/0 and inf/inf are NaN, x/inf is 0.
Div(x, y) ==
    IF x.d = 0 \/ y.d = 0 \/ y.n = 0 THEN Norm(x.n * y.d * Sign(IF y.n = 0 THEN 1 ELSE y.n),
                                               x.d * Abs(y.n))
    ELSE Mul(x, Norm(y.d, y.n))

\* Comparisons are false as soon as one side is NaN.
Lt(x, y) ==
    /\ ~IsNaN(x)
    /\ ~IsNaN(y)
    /\ IF x.d = 0 \/ y.d = 0
       THEN (IF x.d = 0 THEN x.n ELSE 0) < (IF y.d = 0 THEN y.n ELSE 0)
       ELSE x.n * y.d < y.n * x.d

Gt(x, y) == Lt(y, x)

Le(x, y) == ~IsNaN(x) /\ ~IsNaN(y) /\ ~Lt(y, x)

Ge(x, y) == Le(y, x)

AbsR(x) == [n |-> Abs(x.n), d |-> x.d]

(***************************************************************************)
(* Standard deviations are square roots; they are carried exactly as       *)
(* a + b*sqrt(v) with rational a, b and v >= 0 (b = 0 exactly when the     *)
(* root vanishes, a = NaN for the sentinel).                               *)
(***************************************************************************)
SurdNaN == [a |-> NaN, b |-> Zero, v |-> Zero]

MkSurd(a, b, v) ==
    IF ~IsFinite(a) \/ ~IsFinite(b) \/ ~IsFinite(v) THEN SurdNaN
    ELSE IF b.n = 0 \/ v.n = 0 THEN [a |-> a, b |-> Zero, v |-> Zero]
    ELSE [a |-> a, b |-> b, v |-> v]

Sqrt(v) == MkSurd(Zero, R(1), v)

SurdIsNaN(s) == IsNaN(s.a)

SurdScale(s, r) == MkSurd(Mul(s.a, r), Mul(s.b, r), s.v)

\* r + s and r - s for a rational r and a surd s
SurdAddR(r, s) == IF SurdIsNaN(s) THEN SurdNaN ELSE MkSurd(Add(r, s.a), s.b, s.v)

SurdSubR(r, s) == IF SurdIsNaN(s) THEN SurdNaN ELSE MkSurd(Sub(r, s.a), Neg(s.b), s.v)

\* sign of a + b*sqrt(v) - r: compares a surd with a rational exactly
SurdSignMinus(s, r) ==
    LET c  == Sub(s.a, r)
        c2 == Mul(c, c)
        b2 == Mul(Mul(s.b, s.b), s.v)
    IN  IF Sign(c.n) * Sign(s.b.n) >= 0
        THEN (IF c.n # 0 THEN Sign(c.n) ELSE Sign(s.b.n))
        ELSE IF Lt(b2, c2) THEN Sign(c.n)
        ELSE IF Lt(c2, b2) THEN Sign(s.b.n)
        ELSE 0

SurdGe(s, r) == ~SurdIsNaN(s) /\ ~IsNaN(r) /\ SurdSignMinus(s, r) >= 0

SurdLe(s, r) == ~SurdIsNaN(s) /\ ~IsNaN(r) /\ SurdSignMinus(s, r) <= 0

(***************************************************************************)
(* pandas Series operations used by the indicator code.  A Series is a     *)
(* sequence; positions are 1-based here, 0-based in the code.              *)
(***************************************************************************)
\* sums, maxima and minima over the positions lo..hi, by halving the range
RECURSIVE SumR(_, _, _)
SumR(s, lo, hi) ==
    IF lo > hi THEN Zero
    ELSE IF lo = hi THEN s[lo]
    ELSE LET mid == (lo + hi) \div 2 IN Add(SumR(s, lo, mid), SumR(s, mid + 1, hi))

RECURSIVE SumSqDev(_, _, _, _)
SumSqDev(s, m, lo, hi) ==
    IF lo > hi THEN Zero
    ELSE IF lo = hi THEN LET e == Sub(s[lo], m) IN Mul(e, e)
    ELSE LET mid == (lo + hi) \div 2
         IN  Add(SumSqDev(s, m, lo, mid), SumSqDev(s, m, mid + 1, hi))

RECURSIVE MaxR(_, _, _)
MaxR(s, lo, hi) ==
    IF lo = hi THEN s[lo]
    ELSE LET mid == (lo + hi) \div 2
             l   == MaxR(s, lo, mid)
             r   == MaxR(s, mid + 1, hi)
         IN  IF Lt(l, r) THEN r ELSE l

RECURSIVE MinR(_, _, _)
MinR(s, lo, hi) ==
    IF lo = hi THEN s[lo]
    ELSE LET mid == (lo + hi) \div 2
             l   == MinR(s, lo, mid)
             r   == MinR(s, mid + 1, hi)
         IN  IF Lt(r, l) THEN r ELSE l

\* Series.rolling(window): min_periods defaults to the window size, so a
\* position has a value only when the window is full and holds no NaN.
window_full(s, window, i) ==
    /\ i >= window
    /\ \A j \in (i - window + 1)..i : ~IsNaN(s[j])

\* rolling(window, min_periods=1): a partial window already has a value
rolling_mean_min_periods_1(s, window) ==
    [i \in 1..Len(s) |->
        LET lo == Max2(1, i - window + 1)
        IN  IF \A j \in lo..i : ~IsNaN(s[j])
            THEN Div(SumR(s, lo, i), R(i - lo + 1))
            ELSE NaN]

\* the rolling sum: the window's total, not divided by the window
rolling_sum(s, window) ==
    [i \in 1..Len(s) |->
        IF window_full(s, window, i) THEN SumR(s, i - window + 1, i) ELSE NaN]

rolling_mean(s, window) ==
    [i \in 1..Len(s) |->
        IF window_full(s, window, i)
        THEN Div(SumR(s, i - window + 1, i), R(window))
        ELSE NaN]

\* Rolling.std(ddof=1): pandas' default delta degrees of freedom is 1
std_ddof == 1

\* the variance with ddof=0
rolling_var_ddof_0(s, window, i) ==
    LET m == Div(SumR(s, i - window + 1, i), R(window))
    IN  Div(SumSqDev(s, m, i - window + 1, i), R(window))

rolling_var(s, window, i) ==
    LET m == Div(SumR(s, i - window + 1, i), R(window))
    IN  Div(SumSqDev(s, m, i - window + 1, i), R(window - std_ddof))

rolling_std(s, window) ==
    [i \in 1..Len(s) |->
        IF window_full(s, window, i)
        THEN Sqrt(rolling_var(s, window, i))
        ELSE SurdNaN]

\* the maximum of the rows before the current one (closed='left')
rolling_max_closed_left(s, window) ==
    [i \in 1..Len(s) |->
        IF window_full(s, window, i) THEN MaxR(s, i - window + 1, i - 1) ELSE NaN]

rolling_max(s, window) ==
    [i \in 1..Len(s) |->
        IF window_full(s, window, i) THEN MaxR(s, i - window + 1, i) ELSE NaN]

rolling_min(s, window) ==
    [i \in 1..Len(s) |->
        IF window_full(s, window, i) THEN MinR(s, i - window + 1, i) ELSE NaN]

\* numpy.diff: one element fewer than the input
diff_numpy(s) == [i \in 1..(Len(s) - 1) |-> Sub(s[i + 1], s[i])]

\* Series.diff(): the first position has no predecessor
diff(s) == [i \in 1..Len(s) |-> IF i = 1 THEN NaN ELSE Sub(s[i], s[i - 1])]

\* pct_change().fillna(0)
pct_change_fillna_0(s) ==
    [i \in 1..Len(s) |-> IF i = 1 THEN Zero ELSE Sub(Div(s[i], s[i - 1]), R(1))]

\* a return over the current rate: (s[t] - s[t-1]) / s[t]
pct_change_over_current(s) ==
    [i \in 1..Len(s) |-> IF i = 1 THEN NaN ELSE Div(Sub(s[i], s[i - 1]), s[i])]

\* Series.pct_change(): s[t] / s[t-1] - 1
pct_change(s) ==
    [i \in 1..Len(s) |-> IF i = 1 THEN NaN ELSE Sub(Div(s[i], s[i - 1]), R(1))]

\* delta.where(delta > 0, 0): keeps the positive entries, 0 elsewhere (NaN > 0 is false)
where_positive(s) == [i \in 1..Len(s) |-> IF Gt(s[i], Zero) THEN s[i] ELSE Zero]

\* delta.where(delta < 0, 0): the losses without the sign change
where_negative(s) == [i \in 1..Len(s) |-> IF Lt(s[i], Zero) THEN s[i] ELSE Zero]

\* (-delta).where(delta < 0, 0)
where_negative_negated(s) == [i \in 1..Len(s) |-> IF Lt(s[i], Zero) THEN Neg(s[i]) ELSE Zero]

\* the deltas with their signs, not their absolute values
abs_series_signed(s) == s

\* Series.abs(): NaN stays NaN
abs_series(s) == [i \in 1..Len(s) |-> AbsR(s[i])]

(***************************************************************************)
(* Exponentially weighted means.  With alpha = 2/(span+1) the value at     *)
(* position t has a denominator that grows like (span+1)^t, so these       *)
(* columns are carried as sign * mag / EwmDen^e with an arbitrary-size     *)
(* natural mag (little-endian limbs in base BigBase, no leading zero       *)
(* limb).  EwmDen is a common multiple of span+1 for the spans the code    *)
(* uses (13, 27 and 10), so alpha = EwmNum(span) / EwmDen.                 *)
(***************************************************************************)
BigBase == 100 * 100

RECURSIVE BigNat(_)
BigNat(n) == IF n = 0 THEN << >> ELSE <<n % BigBase>> \o BigNat(n \div BigBase)

Limb(a, i) == IF i <= Len(a) THEN a[i] ELSE 0

\* The limb loops run over lo..hi by halving the range; the lower half is
\* computed first and hands its output limbs and carry to the upper half.
RECURSIVE BigAddC(_, _, _, _, _)
BigAddC(a, b, lo, hi, st) ==
    IF lo > hi THEN st
    ELSE IF lo = hi
    THEN LET t == Limb(a, lo) + Limb(b, lo) + st.c
         IN  [out |-> Append(st.out, t % BigBase), c |-> t \div BigBase]
    ELSE LET mid   == (lo + hi) \div 2
             lower == BigAddC(a, b, lo, mid, st)
         IN  IF lower.c >= 0 THEN BigAddC(a, b, mid + 1, hi, lower) ELSE lower

BigAdd(a, b) ==
    LET r == BigAddC(a, b, 1, Max2(Len(a), Len(b)), [out |-> << >>, c |-> 0])
    IN  r.out \o BigNat(r.c)

RECURSIVE BigMulC(_, _, _, _, _)
BigMulC(a, m, lo, hi, st) ==
    IF lo > hi THEN st
    ELSE IF lo = hi
    THEN LET t == a[lo] * m + st.c
         IN  [out |-> Append(st.out, t % BigBase), c |-> t \div BigBase]
    ELSE LET mid   == (lo + hi) \div 2
             lower == BigMulC(a, m, lo, mid, st)
         IN  IF lower.c >= 0 THEN BigMulC(a, m, mid + 1, hi, lower) ELSE lower

\* a * m for a natural m below BigBase * 20
BigMulSmall(a, m) ==
    IF m = 0 THEN << >>
    ELSE LET r == BigMulC(a, m, 1, Len(a), [out |-> << >>, c |-> 0])
         IN  r.out \o BigNat(r.c)

\* a * b, limb by limb
RECURSIVE BigMul(_, _)
BigMul(a, b) ==
    IF Len(b) = 0 \/ Len(a) = 0 THEN << >>
    ELSE LET rest == BigMul(a, Tail(b))
         IN  BigAdd(BigMulSmall(a, Head(b)),
                    IF Len(rest) = 0 THEN << >> ELSE <<0>> \o rest)

\* -1, 0, 1 as a < b, a = b, a > b
RECURSIVE BigCmpFrom(_, _, _)
BigCmpFrom(a, b, i) ==
    IF i = 0 THEN 0
    ELSE IF a[i] # b[i] THEN (IF a[i] < b[i] THEN -1 ELSE 1)
    ELSE BigCmpFrom(a, b, i - 1)

BigCmp(a, b) ==
    IF a = b THEN 0
    ELSE IF Len(a) # Len(b) THEN (IF Len(a) < Len(b) THEN -1 ELSE 1)
    ELSE BigCmpFrom(a, b, Len(a))

RECURSIVE BigStrip(_)
BigStrip(a) ==
    IF Len(a) > 0 /\ a[Len(a)] = 0 THEN BigStrip(SubSeq(a, 1, Len(a) - 1)) ELSE a

RECURSIVE BigSubC(_, _, _, _, _)
BigSubC(a, b, lo, hi, st) ==
    IF lo > hi THEN st
    ELSE IF lo = hi
    THEN LET t == a[lo] - Limb(b, lo) - st.c
         IN  [out |-> Append(st.out, IF t < 0 THEN t + BigBase ELSE t),
              c |-> IF t < 0 THEN 1 ELSE 0]
    ELSE LET mid   == (lo + hi) \div 2
             lower == BigSubC(a, b, lo, mid, st)
         IN  IF lower.c >= 0 THEN BigSubC(a, b, mid + 1, hi, lower) ELSE lower

\* a - b for a >= b
BigSub(a, b) == BigStrip(BigSubC(a, b, 1, Len(a), [out |-> << >>, c |-> 0]).out)

\* a common multiple of 12+1, 26+1 and (9+1)/2
EwmDen == 13 * 27 * 5

RECURSIVE BigPowDen(_)
BigPowDen(k) == IF k = 0 THEN <<1>> ELSE BigMulSmall(BigPowDen(k - 1), EwmDen)

\* a scaled value: s * m / EwmDen^e
SV(s, m, e) == IF s = 0 \/ Len(m) = 0 THEN [s |-> 0, m |-> << >>, e |-> 0]
               ELSE [s |-> s, m |-> m, e |-> e]

SVFromInt(n) == SV(Sign(n), BigNat(Abs(n)), 0)

\* float cell -> scaled value; the columns smoothed by the code hold integers
\* (the rates of the model) or scaled values (MACD)
SVOf(x) == IF "m" \in DOMAIN x THEN x ELSE SVFromInt(x.n)

SVIsZero(x) == x.s = 0

SVNeg(x) == [s |-> -x.s, m |-> x.m, e |-> x.e]

\* the numerator of x over EwmDen^e, for e >= x.e; pw = EwmDen^e
SVMagAt(x, e, pw) ==
    IF x.e = e THEN x.m
    ELSE IF x.e = 0 THEN BigMul(pw, x.m)
    ELSE BigMul(x.m, BigPowDen(e - x.e))

\* signed sum of two numerators
SVAddMag(s1, m1, s2, m2, e) ==
    IF s1 = 0 THEN SV(s2, m2, e)
    ELSE IF s2 = 0 THEN SV(s1, m1, e)
    ELSE IF s1 = s2 THEN SV(s1, BigAdd(m1, m2), e)
    ELSE LET c == BigCmp(m1, m2)
         IN  IF c = 0 THEN SV(0, << >>, 0)
             ELSE IF c > 0 THEN SV(s1, BigSub(m1, m2), e)
             ELSE SV(s2, BigSub(m2, m1), e)

SVAdd(x, y) ==
    IF x.s = 0 THEN y
    ELSE IF y.s = 0 THEN x
    ELSE LET e  == Max2(x.e, y.e)
             pw == BigPowDen(e)
         IN  SVAddMag(x.s, SVMagAt(x, e, pw), y.s, SVMagAt(y, e, pw), e)

SVSub(x, y) == SVAdd(x, SVNeg(y))

\* alpha = 2 / (span + 1) = EwmNum(span) / EwmDen
EwmNum(span) == (2 * EwmDen) \div (span + 1)

\* a smoothing step with the two weights exchanged:
\*   y[t] = (1 - alpha) * x[t] + alpha * y[t-1]
ewm_step_swapped(y, x, span, pw) ==
    IF x = y THEN y
    ELSE LET e == Max2(x.e, y.e)
             a == EwmNum(span)
         IN  SVAddMag(x.s, BigMulSmall(SVMagAt(x, e, pw), EwmDen - a),
                      y.s, BigMulSmall(SVMagAt(y, e, pw), a),
                      e + 1)

\* One step of ewm(span, adjust=False).mean():
\*   y[t] = alpha * x[t] + (1 - alpha) * y[t-1],
\* left as it is when x[t] = y[t-1] (pandas skips the update then).
\* pw is EwmDen^e for e = Max2(x.e, y.e).
ewm_step(y, x, span, pw) ==
    IF x = y THEN y
    ELSE LET e == Max2(x.e, y.e)
             a == EwmNum(span)
         IN  SVAddMag(x.s, BigMulSmall(SVMagAt(x, e, pw), a),
                      y.s, BigMulSmall(SVMagAt(y, e, pw), EwmDen - a),
                      e + 1)

\* The loop over the positions lo..hi, by halving the range; st.out holds
\* y[1..lo-1] and st.pw = EwmDen^st.k.
RECURSIVE ewm_range(_, _, _, _, _)
ewm_range(s, span, lo, hi, st) ==
    IF lo > hi THEN st
    ELSE IF lo = hi
    THEN LET x   == SVOf(s[lo])
             y   == st.out[lo - 1]
             e   == Max2(x.e, y.e)
             pwe == IF e = st.k THEN st.pw
                    ELSE IF e = st.k + 1 THEN BigMulSmall(st.pw, EwmDen)
                    ELSE BigPowDen(e)
         IN  [out |-> Append(st.out, ewm_step(y, x, span, pwe)), k |-> e, pw |-> pwe]
    ELSE LET mid   == (lo + hi) \div 2
             lower == ewm_range(s, span, lo, mid, st)
         IN  IF lower.k >= 0 THEN ewm_range(s, span, mid + 1, hi, lower) ELSE lower

\* Series.ewm(span=span, adjust=False).mean(): seeded by the first value
ewm_mean(s, span) ==
    IF Len(s) = 0 THEN << >>
    ELSE ewm_range(s, span, 2, Len(s), [out |-> <<SVOf(s[1])>>, k |-> 0, pw |-> <<1>>]).out

sv_sub_series(a, b) == [i \in 1..Len(a) |-> SVSub(a[i], b[i])]

(***************************************************************************)
(* DataFrames: a frame maps each column name to its Series; all columns    *)
(* have the same length.                                                   *)
(***************************************************************************)
NoFrame == [c \in {} |-> << >>]

Columns(f) == DOMAIN f

\* len(df): a frame without columns has no rows
FrameLen(f) == IF Columns(f) = {} THEN 0 ELSE Len(f[CHOOSE c \in Columns(f) : TRUE])

\* df[name] = series
set_col(f, name, series) == (name :> series) @@ f

InputColumns == {"DATE", "EXCHANGE_RATE", "VARIABLE_NAME", "BASE_CURRENCY_ID", "QUOTE_CURRENCY_ID"}

\* the frame load_fx_data returns for the rates of one currency pair:
\* rows in ascending DATE order, one numeric EXCHANGE_RATE per row
load_fx_data(rates) ==
    [c \in InputColumns |->
        [i \in 1..Len(rates) |->
            CASE c = "DATE" -> i
              [] c = "EXCHANGE_RATE" -> R(rates[i])
              [] c = "VARIABLE_NAME" -> "USD/JPY Exchange Rate"
              [] c = "BASE_CURRENCY_ID" -> "USD"
              [] c = "QUOTE_CURRENCY_ID" -> "JPY"]]

(***************************************************************************)
(* calculate_technical_indicators: the columns it adds to its working      *)
(* frame, in the order of the assignments.                                 *)
(***************************************************************************)
div_series(a, b) == [i \in 1..Len(a) |-> Div(a[i], b[i])]

sub_series(a, b) == [i \in 1..Len(a) |-> Sub(a[i], b[i])]

add_series(a, b) == [i \in 1..Len(a) |-> Add(a[i], b[i])]

scale_series(a, k) == [i \in 1..Len(a) |-> Mul(R(k), a[i])]

\* an RSI that has no value when the average loss is zero (rs is infinite)
rsi_of_nan_on_zero_loss(rs) ==
    [i \in 1..Len(rs) |->
        IF IsInf(rs[i]) THEN NaN ELSE Sub(R(100), Div(R(100), Add(R(1), rs[i])))]

\* 100 - (100 / (1 + rs))
rsi_of(rs) == [i \in 1..Len(rs) |-> Sub(R(100), Div(R(100), Add(R(1), rs[i])))]

\* 100 * abs(DI_Plus - DI_Minus) / (DI_Plus + DI_Minus)
dx_of(dip, dim) ==
    [i \in 1..Len(dip) |->
        Div(Mul(R(100), AbsR(Sub(dip[i], dim[i]))), Add(dip[i], dim[i]))]

bb_upper_of(mid, std) == [i \in 1..Len(mid) |-> SurdAddR(mid[i], SurdScale(std[i], R(2)))]

\* the lower band with the sign of the upper band
bb_lower_plus(mid, std) == [i \in 1..Len(mid) |-> SurdAddR(mid[i], SurdScale(std[i], R(2)))]

bb_lower_of(mid, std) == [i \in 1..Len(mid) |-> SurdSubR(mid[i], SurdScale(std[i], R(2)))]

add_indicators(df, price_col) ==
    LET price    == df[price_col]
        bb_mid   == rolling_mean(price, 20)
        bb_std   == rolling_std(price, 20)
        delta    == diff(price)
        gain     == rolling_mean(where_positive(delta), 14)
        loss     == rolling_mean(where_negative_negated(delta), 14)
        rs       == div_series(gain, loss)
        exp1     == ewm_mean(price, 12)
        exp2     == ewm_mean(price, 26)
        macd     == sv_sub_series(exp1, exp2)
        signal   == ewm_mean(macd, 9)
        high_14  == rolling_max(price, 14)
        low_14   == rolling_min(price, 14)
        stoch_k  == scale_series(div_series(sub_series(price, low_14),
                                            sub_series(high_14, low_14)), 100)
        price_diff == diff(price)
        tr       == abs_series(diff(price))
        atr      == rolling_mean(tr, 14)
        dm_plus  == where_positive(price_diff)
        dm_minus == where_negative_negated(price_diff)
        di_plus  == scale_series(div_series(rolling_mean(dm_plus, 14), atr), 100)
        di_minus == scale_series(div_series(rolling_mean(dm_minus, 14), atr), 100)
        dx       == dx_of(di_plus, di_minus)
        d1  == set_col(df, "MA_5", rolling_mean(price, 5))
        d2  == set_col(d1, "MA_20", rolling_mean(price, 20))
        d3  == set_col(d2, "MA_50", rolling_mean(price, 50))
        d4  == set_col(d3, "MA_200", rolling_mean(price, 200))
        d5  == set_col(d4, "BB_Middle", bb_mid)
        d6  == set_col(d5, "BB_Upper", bb_upper_of(bb_mid, bb_std))
        d7  == set_col(d6, "BB_Lower", bb_lower_of(bb_mid, bb_std))
        d8  == set_col(d7, "RSI", rsi_of(rs))
        d9  == set_col(d8, "MACD", macd)
        d10 == set_col(d9, "MACD_Signal", signal)
        d11 == set_col(d10, "MACD_Histogram", sv_sub_series(macd, signal))
        d12 == set_col(d11, "Stoch_K", stoch_k)
        d13 == set_col(d12, "Stoch_D", rolling_mean(stoch_k, 3))
        d14 == set_col(d13, "TR", tr)
        d15 == set_col(d14, "ATR", atr)
        d16 == set_col(d15, "DM_Plus", dm_plus)
        d17 == set_col(d16, "DM_Minus", dm_minus)
        d18 == set_col(d17, "DI_Plus", di_plus)
        d19 == set_col(d18, "DI_Minus", di_minus)
        d20 == set_col(d19, "DX", dx)
        d21 == set_col(d20, "ADX", rolling_mean(dx, 14))
        d22 == set_col(d21, "Volatility", rolling_std(price, 20))
        d23 == set_col(d22, "Daily_Return", pct_change(price))
    IN  d23

(***************************************************************************)
(* Whole-series statistics of a column of whole numbers (the model's       *)
(* rates).  Sums are taken of the distances from the first value, which    *)
(* leaves the variance as it is and keeps the numbers small.               *)
(***************************************************************************)
RECURSIVE SumShift(_, _, _, _)
SumShift(s, c, lo, hi) ==
    IF lo > hi THEN 0
    ELSE IF lo = hi THEN s[lo].n - c
    ELSE SumShift(s, c, lo, (lo + hi) \div 2) + SumShift(s, c, ((lo + hi) \div 2) + 1, hi)

RECURSIVE SumSqShift(_, _, _, _)
SumSqShift(s, c, lo, hi) ==
    IF lo > hi THEN 0
    ELSE IF lo = hi THEN (s[lo].n - c) * (s[lo].n - c)
    ELSE SumSqShift(s, c, lo, (lo + hi) \div 2)
         + SumSqShift(s, c, ((lo + hi) \div 2) + 1, hi)

\* sum of squared deviations from the mean, divided by n - ddof; NaN when
\* n - ddof is not positive
series_var(s, ddof) ==
    LET n  == Len(s)
        s1 == SumShift(s, s[1].n, 1, n)
        s2 == SumSqShift(s, s[1].n, 1, n)
    IN  IF n - ddof <= 0 THEN NaN ELSE Norm(n * s2 - s1 * s1, n * (n - ddof))

\* Series.std(ddof=0): the population standard deviation
series_std_population(s) == Sqrt(series_var(s, 0))

\* Series.std(): pandas' default delta degrees of freedom is 1
series_std(s) == Sqrt(series_var(s, std_ddof))

series_mean(s) == Div(SumR(s, 1, Len(s)), R(Len(s)))

\* df.tail(n) with the whole frame in place of its last n rows
tail_whole(s, n) == s

\* df.tail(n): the last n rows, all rows when there are fewer
tail(s, n) == SubSeq(s, Max2(1, Len(s) - n + 1), Len(s))

(***************************************************************************)
(* get_ai_analysis: the figures of the market summary that the prompt is   *)
(* built from.  recent_trend is "up" for the source's rising label and     *)
(* "down" for its falling label.                                           *)
(***************************************************************************)
\* the analysis types of the sidebar's selectbox
AnalysisTypes == {"market_trend", "technical_analysis", "risk_assessment"}

\* what session.sql(ai_query).collect() does: it returns a row, returns no
\* row, or raises
Completions == {"row", "no_row", "exception"}

\* the format specifications float.__format__ accepts, of those the prompts use
FloatFormatSpecs == {".1f", ".2f", ".4f", "+.2f", "+.4f"}

\* the text after the colon of each replacement field of the prompt's
\* f-string: everything up to the closing brace is the format specification
prompt_format_specs(analysis_type) ==
    CASE analysis_type = "market_trend" -> {".4f", "+.4f", "+.2f", ".2f"}
      [] analysis_type = "technical_analysis" ->
            {".4f", ".1f if rsi else 'N/A'", ".4f if macd else 'N/A'"}
      [] analysis_type = "risk_assessment" -> {".4f", ".2f"}

\* building the prompt raises (ValueError for a float, TypeError for None)
\* when a field's format specification is not one that the value accepts
prompt_raises(analysis_type) ==
    \E spec \in prompt_format_specs(analysis_type) : spec \notin FloatFormatSpecs

\* the prompt is built before the try block; inside it the completion is
\* called: its text, the fallback text when there is no row, the error text
\* when the call raises
get_ai_analysis(f, analysis_type, completion) ==
    LET rates       == f["EXCHANGE_RATE"]
        n           == Len(rates)
        latest_rate == rates[n]
        prev_rate   == IF n > 1 THEN rates[n - 1] ELSE latest_rate
        change      == Sub(latest_rate, prev_rate)
        recent_data == tail(rates, 10)
    IN  [requested    |-> TRUE,
         analysis_type |-> analysis_type,
         raises       |-> prompt_raises(analysis_type),
         returned     |-> IF prompt_raises(analysis_type) THEN "nothing"
                          ELSE IF completion = "row" THEN "analysis"
                          ELSE IF completion = "no_row" THEN "fallback message"
                          ELSE "error message",
         latest_rate  |-> latest_rate,
         prev_rate    |-> prev_rate,
         change       |-> change,
         change_pct   |-> IF prev_rate # Zero THEN Mul(Div(change, prev_rate), R(100)) ELSE Zero,
         min_rate     |-> MinR(rates, 1, n),
         max_rate     |-> MaxR(rates, 1, n),
         avg_rate     |-> series_mean(rates),
         volatility   |-> series_std(rates),
         recent_trend |-> IF Gt(recent_data[Len(recent_data)], recent_data[1])
                          THEN "up" ELSE "down"]

NoAnalysis == [requested |-> FALSE]

(***************************************************************************)
(* display_single_currency_analysis: the table of basic statistics and     *)
(* the table of signals of the latest row.  Cells hold the numbers that    *)
(* the code hands to the formatter; the labels stand for the source's      *)
(* labels: overbought, oversold, neutral, strong trend, weak trend,        *)
(* ranging.                                                                *)
(***************************************************************************)
basic_statistics(f) ==
    LET rates == f["EXCHANGE_RATE"]
    IN  [mean |-> series_mean(rates),
         std  |-> series_std(rates),
         min  |-> MinR(rates, 1, Len(rates)),
         max  |-> MaxR(rates, 1, Len(rates))]

NoStatistics == [mean |-> NaN, std |-> SurdNaN, min |-> NaN, max |-> NaN]

\* pd.notna that lets every value through
notna_always(v) == TRUE

\* pd.notna(v)
notna(v) == ~IsNaN(v)

rsi_signal(v) ==
    IF Gt(v, R(70)) THEN "overbought" ELSE IF Lt(v, R(30)) THEN "oversold" ELSE "neutral"

stoch_signal(v) ==
    IF Gt(v, R(80)) THEN "overbought" ELSE IF Lt(v, R(20)) THEN "oversold" ELSE "neutral"

\* a trend classification whose upper threshold is inclusive
adx_signal_inclusive(v) ==
    IF Ge(v, R(25)) THEN "strong trend" ELSE IF Gt(v, R(20)) THEN "weak trend" ELSE "ranging"

adx_signal(v) ==
    IF Gt(v, R(25)) THEN "strong trend" ELSE IF Gt(v, R(20)) THEN "weak trend" ELSE "ranging"

\* tech_data: one row [indicator, value, signal] per indicator that has a
\* value at the latest row
technical_summary(f) ==
    LET n    == FrameLen(f)
        val(c) == f[c][n]
        r1 == IF "RSI" \in Columns(f) /\ notna(val("RSI"))
              THEN <<<<"RSI", val("RSI"), rsi_signal(val("RSI"))>>>> ELSE << >>
        r2 == IF "Stoch_K" \in Columns(f) /\ notna(val("Stoch_K"))
              THEN <<<<"Stochastic %K", val("Stoch_K"), stoch_signal(val("Stoch_K"))>>>>
              ELSE << >>
        r3 == IF "ADX" \in Columns(f) /\ notna(val("ADX"))
              THEN <<<<"ADX", val("ADX"), adx_signal(val("ADX"))>>>> ELSE << >>
    IN  r1 \o r2 \o r3

(***************************************************************************)
(* The chart of display_single_currency_analysis.  sb holds the sidebar's  *)
(* checkboxes.  Titles: "rate" for the pair's rate, "indicators" for the   *)
(* joined MACD / RSI / ADX title, "stochastics".                           *)
(***************************************************************************)
Trace(name, row) == [name |-> name, row |-> row]

make_chart(sb, f) ==
    LET second == sb.show_technical /\ (sb.show_macd \/ sb.show_rsi \/ sb.show_adx)
        third  == sb.show_technical /\ sb.show_stoch
        subplot_count  == 1 + (IF second THEN 1 ELSE 0) + (IF third THEN 1 ELSE 0)
        subplot_titles == <<"rate">> \o (IF second THEN <<"indicators">> ELSE << >>)
                                     \o (IF third THEN <<"stochastics">> ELSE << >>)
        ma   == IF sb.show_technical /\ sb.show_ma
                THEN SelectSeq(<<Trace("MA_20", 1), Trace("MA_50", 1)>>,
                               LAMBDA tr : tr.name \in Columns(f))
                ELSE << >>
        bb   == IF sb.show_technical /\ sb.show_bb
                THEN <<Trace("BB_Upper", 1), Trace("BB_Lower", 1)>> ELSE << >>
        macd == IF subplot_count >= 2 /\ sb.show_macd
                THEN <<Trace("MACD", 2), Trace("MACD_Signal", 2), Trace("MACD_Histogram", 2)>>
                ELSE << >>
        rsi  == IF subplot_count >= 2 /\ sb.show_rsi THEN <<Trace("RSI", 2)>> ELSE << >>
        adx  == IF subplot_count >= 2 /\ sb.show_adx /\ "ADX" \in Columns(f)
                THEN <<Trace("ADX", 2)>> ELSE << >>
        stoch == IF subplot_count >= 3 /\ sb.show_stoch
                 THEN <<Trace("Stoch_K", 3), Trace("Stoch_D", 3)>> ELSE << >>
    IN  [rows   |-> subplot_count,
         titles |-> subplot_titles,
         traces |-> <<Trace("EXCHANGE_RATE", 1)>> \o ma \o bb \o macd \o rsi \o adx \o stoch]

NoChart == [rows |-> 0, titles |-> << >>, traces |-> << >>]

(***************************************************************************)
(* The sidebar of main: the checkboxes of the indicators (all off when     *)
(* the indicators are switched off as a whole) and the AI section (the     *)
(* analysis type is handed on only when the section is switched on).       *)
(***************************************************************************)
Sidebars ==
    {sb \in [show_technical : BOOLEAN, show_ma : BOOLEAN, show_bb : BOOLEAN,
             show_rsi : BOOLEAN, show_macd : BOOLEAN, show_stoch : BOOLEAN,
             show_adx : BOOLEAN, show_ai_analysis : BOOLEAN,
             ai_analysis_type : AnalysisTypes \cup {"None"}] :
        /\ ~sb.show_technical =>
              ~(sb.show_ma \/ sb.show_bb \/ sb.show_rsi \/ sb.show_macd
                \/ sb.show_stoch \/ sb.show_adx)
        /\ sb.show_ai_analysis <=> sb.ai_analysis_type # "None"}

\* the values the widgets have when the page is first opened
DefaultSidebar ==
    [show_technical |-> TRUE, show_ma |-> TRUE, show_bb |-> TRUE, show_rsi |-> TRUE,
     show_macd |-> TRUE, show_stoch |-> FALSE, show_adx |-> FALSE,
     show_ai_analysis |-> TRUE, ai_analysis_type |-> "market_trend"]

(***************************************************************************)
(* Input price series.                                                     *)
(***************************************************************************)
\* every series of up to MaxShort rates out of ShortRates
MaxShort == 4

\* walks: the rate starts at BaseRate and moves by a repeating pattern of
\* day-over-day steps out of -1, 0, 1; after SwitchAt rows a second pattern
\* takes over
BaseRate == 100

SwitchAt == 15

MaxLen == 29

\* series long enough for the 50- and 200-row windows
MaxLong == 201

ShortRates == {BaseRate, BaseRate + 1, BaseRate + 2}

ShortSeries == UNION {[1..n -> ShortRates] : n \in 0..MaxShort}

\* the repeating patterns: one or two steps
Motifs == [1..1 -> {-1, 0, 1}] \cup [1..2 -> {-1, 0, 1}]

\* the sum of the first j steps of the repeating pattern m
RECURSIVE StepSum(_, _)
StepSum(m, j) ==
    IF j = 0 THEN 0
    ELSE IF j > Len(m) THEN (j \div Len(m)) * StepSum(m, Len(m)) + StepSum(m, j % Len(m))
    ELSE m[j] + StepSum(m, j - 1)

\* n rows: pattern a for the first k steps, pattern b afterwards
Walk(a, b, k, n) ==
    [i \in 1..n |->
        BaseRate + StepSum(a, IF i - 1 < k THEN i - 1 ELSE k)
                 + StepSum(b, IF i - 1 < k THEN 0 ELSE i - 1 - k)]

WalkSeries ==
    {Walk(a, a, 0, n) : a \in Motifs, n \in 0..MaxLen}
    \cup {Walk(a, b, SwitchAt, MaxLen) : a \in Motifs, b \in Motifs}
    \cup {Walk(<<0>>, b, SwitchAt - 1, MaxLen) : b \in Motifs}

LongSeries ==
    {Walk(a, b, MaxLong - 2, n) :
        a \in {<<0>>, <<1>>, <<1, -1>>}, b \in {<<0>>, <<-1>>}, n \in {MaxLong - 1, MaxLong}}

\* the example of the specification's testable properties
ExampleSeries == {<<100, 101, 99, 102, 105>>}

\* patterns of 14 steps, repeated over two periods: every 14-row window
\* holds the same gains and losses, so RSI, Stoch_K and ADX of the last row
\* are known ratios: RSI 70 and Stoch_K 80; RSI 30 and Stoch_K 20; ADX 25
\* and Stoch_K 80; ADX 20; and a rise by uneven steps
SignalMotifs ==
    {<<1, -1, 1, -1, 1, 1, 1, 1, 1, -1, 0, 0, 0, 0>>,
     <<-1, 1, -1, 1, -1, -1, -1, -1, -1, 1, 0, 0, 0, 0>>,
     <<0, 0, 0, 0, 0, -1, -1, 1, 1, 1, 1, 1, -1, 0>>,
     <<1, 1, 1, -1, -1, 0, 0, 0, 0, 0, 0, 0, 0, 0>>,
     <<1, 2, 3, 1, 1, 2, 5, 1, 1, 3, 2, 1, 1, 4>>}

SignalSeries == {Walk(a, a, 0, 2 * Len(a)) : a \in SignalMotifs}

\* the series of the runs that go through every setting of the sidebar:
\* the example (no RSI at its last row) and a walk with RSI, Stoch_K and
\* ADX at its last row
ChartSeries == ExampleSeries \cup {Walk(<<1, -1, 1>>, <<1, -1, 1>>, 0, MaxLen)}

PriceSeries ==
    ShortSeries \cup WalkSeries \cup LongSeries \cup ExampleSeries \cup SignalSeries

\* the standard search page: the user's actions, the lengths of the two
\* condition lists and the rows of the table of saved objects
MaxEvents == 5
MaxConditions == 2
MaxSorts == 1
MaxObjects == 2

(***************************************************************************)
(* The standard search page (pages/1_standard_search.py).                  *)
(*                                                                         *)
(* A text is the sequence of its pieces: words, single blanks and          *)
(* punctuation marks.  The string is their concatenation, so a word is     *)
(* surrounded by blanks exactly when its neighbours are " " pieces.        *)
(***************************************************************************)

\* sep.join(texts)
RECURSIVE join(_, _)
join(sep, texts) ==
    IF Len(texts) = 0 THEN << >>
    ELSE IF Len(texts) = 1 THEN texts[1]
    ELSE texts[1] \o sep \o join(sep, Tail(texts))

\* str.upper() of a piece: the words that have lower-case letters
upper(piece) ==
    CASE piece \in {"limit", "Limit"} -> "LIMIT"
      [] piece = "Memo" -> "MEMO"
      [] piece = "a" -> "A"
      [] piece = "b" -> "B"
      [] piece = "x" -> "X"
      [] OTHER -> piece

\* " LIMIT " in text.upper()
contains_limit(text) ==
    \E i \in 1..(Len(text) - 2) :
        /\ text[i] = " "
        /\ upper(text[i + 1]) = "LIMIT"
        /\ text[i + 2] = " "

\* str.lstrip(chars)
RECURSIVE lstrip(_, _)
lstrip(text, chars) ==
    IF Len(text) > 0 /\ Head(text) \in chars THEN lstrip(Tail(text), chars) ELSE text

\* str.rstrip(chars)
RECURSIVE rstrip(_, _)
rstrip(text, chars) ==
    IF Len(text) > 0 /\ text[Len(text)] \in chars
    THEN rstrip(SubSeq(text, 1, Len(text) - 1), chars)
    ELSE text

\* _sanitize_query(q) = q.strip().rstrip(';'): strip() takes the white
\* space off both ends
sanitize_query(q) ==
    LET whitespace == {" ", "\n"}
    IN  rstrip(rstrip(lstrip(q, whitespace), whitespace), {";"})

\* quote_identifier(identifier): the schema has no name that is already
\* quoted, has Japanese or special characters or starts with a digit
quote_identifier(identifier) ==
    LET has_mixed_case == upper(identifier) # identifier
    IN  IF has_mixed_case THEN <<"\"", identifier, "\"">> ELSE <<identifier>>

\* get_available_relations(), parsed by parse_relation_label, in the order
\* of the select box
Relations == <<"CUSTOMERS", "ORDERS">>

\* get_table_columns_with_types_cached(table_name), sorted by name
table_cols(table_name) ==
    IF table_name = "CUSTOMERS"
    THEN <<[name |-> "CREATED_AT", type |-> "TIMESTAMP_NTZ(9)"],
           [name |-> "NAME", type |-> "VARCHAR(100)"]>>
    ELSE <<[name |-> "Memo", type |-> "VARCHAR(100)"],
           [name |-> "ORDER_DATE", type |-> "DATE"]>>

\* is_date_type(data_type): one of the date type names occurs in the type
is_date_type(data_type) == data_type \in {"DATE", "TIMESTAMP_NTZ(9)"}

\* date_columns, by name
date_columns(table_name) ==
    {table_cols(table_name)[i].name : i \in
        {j \in 1..Len(table_cols(table_name)) : is_date_type(table_cols(table_name)[j].type)}}

\* non_date_columns, by name: the columns the filter form offers
non_date_columns(table_name) ==
    {table_cols(table_name)[i].name : i \in 1..Len(table_cols(table_name))}
        \ date_columns(table_name)

\* the days of the two date inputs; the inputs start thirty days ago and today
Days == 1..2
DefaultStart == 1
DefaultEnd == 2

\* date.strftime('%Y-%m-%d')
strftime(day) == <<"2024-01-01", "2024-01-31">>[day]

\* the empty dict of the session state
EmptyDateCondition == [column |-> "", start_date |-> "", end_date |-> ""]

\* the date block of the builder: the session's date_condition after it
date_block(date_col, start_date, end_date, old) ==
    IF date_col # "" /\ ~(start_date > end_date)
    THEN [column |-> date_col, start_date |-> strftime(start_date),
          end_date |-> strftime(end_date)]
    ELSE old

\* the values typed into the filter form
FilterValues == {<<"x">>, <<"a", " ", "limit", " ", "b">>}

\* the entries the filter form can append for a table
FilterInputs(table_name, logic_ops) ==
    {[logic_op |-> l, column |-> c, operator |-> "=", value |-> <<"a", " ", "limit", " ", "b">>] :
        l \in logic_ops, c \in non_date_columns(table_name)}
    \cup
    {[logic_op |-> l, column |-> c, operator |-> "LIKE", value |-> <<"x">>] :
        l \in logic_ops, c \in non_date_columns(table_name)}

\* cond_str of one filter condition
cond_str(cond) ==
    quote_identifier(cond.column) \o <<" ", cond.operator>> \o
    (IF upper(cond.operator) = "LIKE"
     THEN <<" ", "'", "%">> \o cond.value \o <<"%", "'">>
     ELSE <<" ", "'">> \o cond.value \o <<"'">>)

\* date_clause
date_clause(date_cond) ==
    quote_identifier(date_cond.column) \o
    <<" ", "BETWEEN", " ", "'", date_cond.start_date, "'", " ", "AND", " ", "'",
      date_cond.end_date, "'">>

\* where_clauses after the loop over where_conditions_list: a condition
\* that is not the first clause is appended as f"AND {cond_str}", whatever
\* its logic_op
RECURSIVE filter_clauses(_, _)
filter_clauses(conds, first) ==
    IF Len(conds) = 0 THEN << >>
    ELSE <<IF first THEN cond_str(conds[1])
           ELSE <<"AND", " ">> \o cond_str(conds[1])>>
         \o filter_clauses(Tail(conds), FALSE)

\* where_clauses with the date clause appended after the filter conditions
where_clauses_date_last(date_cond, conds) ==
    IF date_cond # EmptyDateCondition
    THEN filter_clauses(conds, TRUE) \o <<date_clause(date_cond)>>
    ELSE filter_clauses(conds, TRUE)

where_clauses(date_cond, conds) ==
    IF date_cond # EmptyDateCondition
    THEN <<date_clause(date_cond)>> \o filter_clauses(conds, FALSE)
    ELSE filter_clauses(conds, TRUE)

\* the builder's SQL: the save handler and the preview build it alike
generated_query(selected_table, selected_columns, date_cond, conds, sorts) ==
    LET wc == where_clauses(date_cond, conds)
        where_clause == IF Len(wc) > 0 THEN <<" ", "WHERE", " ">> \o join(<<" ">>, wc)
                        ELSE << >>
        oc == [i \in 1..Len(sorts) |->
                  quote_identifier(sorts[i].column) \o <<" ", sorts[i].direction>>]
        order_by_clause == IF Len(oc) > 0
                           THEN <<" ", "ORDER", " ", "BY", " ">> \o join(<<",", " ">>, oc)
                           ELSE << >>
        names == [i \in 1..Len(table_cols(selected_table)) |->
                     table_cols(selected_table)[i].name]
        chosen == SelectSeq(names, LAMBDA n : n \in selected_columns)
        select_clause == IF Len(chosen) > 0
                         THEN join(<<",", " ">>,
                                   [i \in 1..Len(chosen) |-> quote_identifier(chosen[i])])
                         ELSE <<"*">>
    IN  <<"SELECT", " ">> \o select_clause \o <<" ", "FROM", " ">>
        \o quote_identifier(selected_table) \o where_clause \o order_by_clause

\* final_query of execute_query, and display_query of the lists when the
\* base is the stored text
with_limit(base_query, all_rows, limit_rows) ==
    IF ~all_rows /\ ~contains_limit(base_query)
    THEN base_query \o <<" ", "LIMIT", " ", limit_rows>>
    ELSE base_query

QueryOutcomes == {"fetched", "count check fails", "fetch fails"}

\* execute_query that stores a result although the query failed
execute_query_stores_always(search_query, all_rows, limit_rows, show_sql, outcome) ==
    LET base_query == sanitize_query(search_query)
        final_query == with_limit(base_query, all_rows, limit_rows)
        count_query == <<"SELECT", " ", "COUNT(*)", " ", "FROM", " ", "(">>
                       \o final_query \o <<")">>
    IN  [final_query |-> final_query,
         shown |-> IF show_sql THEN <<final_query>> ELSE << >>,
         issued |-> IF outcome = "count check fails" THEN <<count_query>>
                    ELSE <<count_query, final_query>>,
         stored |-> <<[query |-> <<"(failed)">>]>>]

\* execute_query(search_query, all_rows, limit_rows, show_sql): the
\* statements it issues and the result it stores, if any
execute_query(search_query, all_rows, limit_rows, show_sql, outcome) ==
    LET base_query == sanitize_query(search_query)
        final_query == with_limit(base_query, all_rows, limit_rows)
        count_query == <<"SELECT", " ", "COUNT(*)", " ", "FROM", " ", "(">>
                       \o final_query \o <<")">>
    IN  [final_query |-> final_query,
         shown |-> IF show_sql THEN <<final_query>> ELSE << >>,
         issued |-> IF outcome = "count check fails" THEN <<count_query>>
                    ELSE <<count_query, final_query>>,
         stored |-> IF outcome = "fetched" THEN <<[query |-> final_query]>> ELSE << >>]

(***************************************************************************)
(* State.                                                                  *)
(***************************************************************************)
VARIABLES
    frames,     \* the DataFrame objects, by reference
    df,         \* the caller's reference to the frame it loaded (0: none)
    result,     \* the reference calculate_technical_indicators returned (0: none)
    raised,     \* an exception escaped calculate_technical_indicators
    rendered,   \* display_single_currency_analysis has drawn the page
    stats_df,   \* the table of basic statistics on the page
    tech_data,  \* the table of signals on the page
    ai_result,  \* the market summary of the AI section, if it was asked for
    sidebar,    \* the settings of the sidebar's widgets
    fig,        \* the chart on the page
    page_error, \* an exception escaped display_single_currency_analysis
    details_shown   \* the data details below the AI section are on the page

fx_vars ==
    <<frames, df, result, raised, rendered, stats_df, tech_data, ai_result, sidebar, fig,
      page_error, details_shown>>

\* The standard search page: the session state, the builder's widgets, the
\* table of saved objects and what the page did last.
VARIABLES
    new_selected_columns_state,  \* st.session_state: the columns ticked for SELECT
    last_result_df,              \* st.session_state: << >> for None, or <<result>>
    where_conditions_list,       \* st.session_state: the filter conditions
    order_by_conditions_list,    \* st.session_state: the sort conditions
    execute_query_request,       \* st.session_state: << >> for None, or <<request>>
    date_condition,              \* st.session_state: the date range, or the empty dict
    new_object_name,             \* widget: the object name ("" when empty)
    new_relation_select,         \* widget: the table or view
    date_col_select,             \* widget: the date column ("" for the blank choice)
    date_start,                  \* widget: the start date
    date_end,                    \* widget: the end date
    STANDARD_SEARCH_OBJECTS,     \* the rows of the table of saved objects
    rerun,                       \* st.rerun() was called: the script starts again
    display_query,               \* the SQL the list showed for the object clicked last
    execution,                   \* the calls of execute_query since the last click
    clock                        \* the user's actions so far, the page's time

search_vars ==
    <<new_selected_columns_state, last_result_df, where_conditions_list,
      order_by_conditions_list, execute_query_request, date_condition, new_object_name,
      new_relation_select, date_col_select, date_start, date_end, STANDARD_SEARCH_OBJECTS,
      rerun, display_query, execution, clock>>

\* lines 36-49 of the page and the widgets' defaults, over the rows the
\* table holds when the page is opened
session_state_init(rows) ==
    /\ new_selected_columns_state = {}
    /\ last_result_df = << >>
    /\ where_conditions_list = << >>
    /\ order_by_conditions_list = << >>
    /\ execute_query_request = << >>
    /\ date_condition = EmptyDateCondition
    /\ new_object_name = ""
    /\ new_relation_select = Relations[1]
    /\ date_col_select = ""
    /\ date_start = DefaultStart
    /\ date_end = DefaultEnd
    /\ STANDARD_SEARCH_OBJECTS = rows
    /\ rerun = FALSE
    /\ display_query = << >>
    /\ execution = << >>
    /\ clock = 0

vars == <<fx_vars, search_vars>>

Refs == {1, 2}

\* df = load_fx_data(start_date, end_date, base_currency, quote_currency)
main_load(rates, sb) ==
    /\ frames = [r \in Refs |-> IF r = 1 THEN load_fx_data(rates) ELSE NoFrame]
    /\ df = 1
    /\ result = 0
    /\ raised = FALSE
    /\ rendered = FALSE
    /\ stats_df = NoStatistics
    /\ tech_data = << >>
    /\ ai_result = NoAnalysis
    /\ sidebar = sb
    /\ fig = NoChart
    /\ page_error = FALSE
    /\ details_shown = FALSE

\* the page as it is first opened, for every series of rates
Init ==
    /\ \E rates \in PriceSeries : main_load(rates, DefaultSidebar)
    /\ session_state_init(<< >>)

\* every setting of the sidebar, for the series of ChartSeries
ChartInit ==
    /\ \E rates \in ChartSeries : \E sb \in Sidebars : main_load(rates, sb)
    /\ session_state_init(<< >>)

\* no copy: the same frame object
df_alias(h, r) == [heap |-> h, ref |-> r]

\* df.copy(): a new frame object with the same columns and values
df_copy(h, r) == [heap |-> [h EXCEPT ![2] = h[r]], ref |-> 2]

\* calculate_technical_indicators(df): every column is assigned on the copy,
\* which is returned; a missing price column is a KeyError
calculate_technical_indicators ==
    /\ df # 0
    /\ result = 0
    /\ ~raised
    /\ LET c == df_copy(frames, df)
           w == c.ref
       IN  IF "EXCHANGE_RATE" \in Columns(c.heap[w])
           THEN /\ frames' = [c.heap EXCEPT ![w] = add_indicators(c.heap[w], "EXCHANGE_RATE")]
                /\ result' = w
                /\ raised' = FALSE
           ELSE /\ frames' = c.heap
                /\ result' = 0
                /\ raised' = TRUE
    /\ UNCHANGED <<df, rendered, stats_df, tech_data, ai_result, sidebar, fig, page_error,
                   details_shown>>
    /\ UNCHANGED search_vars

\* main shows the page of a single pair for the frame that
\* calculate_technical_indicators returned; an empty load returns before
\* that.  The chart and the two tables are drawn first, then the AI section
\* if the sidebar asks for it, then the data details; an exception of
\* get_ai_analysis ends the page there and main reports it.
display_single_currency_analysis ==
    /\ result # 0
    /\ ~raised
    /\ ~rendered
    /\ FrameLen(frames[result]) > 0
    /\ fig' = make_chart(sidebar, frames[result])
    /\ stats_df' = basic_statistics(frames[result])
    /\ tech_data' = technical_summary(frames[result])
    /\ IF sidebar.show_ai_analysis
       THEN \E completion \in Completions :
               /\ prompt_raises(sidebar.ai_analysis_type) => completion = "row"
               /\ ai_result' = get_ai_analysis(frames[result], sidebar.ai_analysis_type,
                                                completion)
               /\ page_error' = ai_result'.raises
               /\ details_shown' = ~ai_result'.raises
       ELSE /\ ai_result' = NoAnalysis
            /\ page_error' = FALSE
            /\ details_shown' = TRUE
    /\ rendered' = TRUE
    /\ UNCHANGED <<frames, df, result, raised, sidebar>>
    /\ UNCHANGED search_vars

Next ==
    \/ calculate_technical_indicators
    \/ display_single_currency_analysis

Spec == Init /\ [][Next]_vars

ChartSpec == ChartInit /\ [][Next]_vars

(***************************************************************************)
(* State machine of the standard search page.  Every action of the user    *)
(* runs the script once: the builder first, then the save handler, the     *)
(* two lists and their buttons, and at the end of the page the pending     *)
(* request.  A handler that calls st.rerun() ends its run there and the    *)
(* script starts again.                                                    *)
(***************************************************************************)

\* the rows other clients of the table wrote before the page is opened: one
\* ends in a semicolon, one has its own LIMIT clause and is a favourite
SetupRows ==
    <<[object_id |-> 1, object_name |-> "ten customers",
       search_query |-> <<"select", " ", "*", " ", "from", " ", "CUSTOMERS", " ", "limit",
                          " ", "10", ";", "\n">>,
       execution_count |-> 0, last_executed |-> "NULL", is_favorite |-> TRUE]>>


widgets == <<new_object_name, new_relation_select, date_col_select, date_start, date_end>>

builder_lists ==
    <<new_selected_columns_state, where_conditions_list, order_by_conditions_list>>

\* an action of the user on the idle page
user_acts ==
    /\ ~rerun
    /\ clock < MaxEvents
    /\ clock' = clock + 1

\* page_end without the reset of the request
page_end_keeps_request(outcome) ==
    IF Len(execute_query_request) > 0
    THEN LET r == execute_query_request[1]
             e == execute_query(r.query, r.all_rows, r.limit_rows, r.show_sql, outcome)
         IN  /\ last_result_df' = IF Len(e.stored) > 0 THEN e.stored ELSE last_result_df
             /\ execution' = Append(execution,
                                    [request |-> r, outcome |-> outcome,
                                     final_query |-> e.final_query, shown |-> e.shown,
                                     issued |-> e.issued])
             /\ execute_query_request' = execute_query_request
    ELSE /\ outcome = "fetched"
         /\ UNCHANGED <<last_result_df, execution, execute_query_request>>

\* the end of the page: a pending request is passed to execute_query, which
\* stores the result if the fetch succeeded, and the request is reset
page_end(outcome) ==
    IF Len(execute_query_request) > 0
    THEN LET r == execute_query_request[1]
             e == execute_query(r.query, r.all_rows, r.limit_rows, r.show_sql, outcome)
         IN  /\ last_result_df' = IF Len(e.stored) > 0 THEN e.stored ELSE last_result_df
             /\ execution' = Append(execution,
                                    [request |-> r, outcome |-> outcome,
                                     final_query |-> e.final_query, shown |-> e.shown,
                                     issued |-> e.issued])
             /\ execute_query_request' = << >>
    ELSE /\ outcome = "fetched"
         /\ UNCHANGED <<last_result_df, execution, execute_query_request>>

\* a run of the whole script after the widgets took their new values
run_to_end ==
    /\ date_condition' = date_block(date_col_select', date_start', date_end', date_condition)
    /\ \E outcome \in QueryOutcomes : page_end(outcome)
    /\ rerun' = FALSE
    /\ UNCHANGED <<STANDARD_SEARCH_OBJECTS, display_query>>

\* a run that ends in a handler's st.rerun(): the date block has run
run_to_rerun ==
    /\ rerun' = TRUE
    /\ UNCHANGED <<widgets, last_result_df>>

\* the object name is typed or cleared
new_object_name_input ==
    /\ user_acts
    /\ \E name \in {"", "report"} \ {new_object_name} : new_object_name' = name
    /\ UNCHANGED <<new_relation_select, date_col_select, date_start, date_end, builder_lists>>
    /\ run_to_end
    /\ UNCHANGED fx_vars

\* another table is chosen: the date column select box has new options and
\* shows its blank choice, the date inputs are not drawn
new_relation_select_input ==
    /\ user_acts
    /\ \E i \in 1..Len(Relations) :
          /\ Relations[i] # new_relation_select
          /\ new_relation_select' = Relations[i]
    /\ date_col_select' = ""
    /\ date_start' = DefaultStart
    /\ date_end' = DefaultEnd
    /\ new_selected_columns_state' =
           new_selected_columns_state
           \cap {table_cols(new_relation_select')[i].name :
                     i \in 1..Len(table_cols(new_relation_select'))}
    /\ UNCHANGED <<new_object_name, where_conditions_list, order_by_conditions_list>>
    /\ run_to_end
    /\ UNCHANGED fx_vars

\* a date column, or the blank choice, is chosen; the date inputs are drawn
\* with their defaults when a column is chosen after the blank choice
date_col_select_input ==
    /\ user_acts
    /\ \E c \in ({""} \cup date_columns(new_relation_select)) \ {date_col_select} :
          date_col_select' = c
    /\ date_start' = IF date_col_select' = "" THEN DefaultStart ELSE date_start
    /\ date_end' = IF date_col_select' = "" THEN DefaultEnd ELSE date_end
    /\ UNCHANGED <<new_object_name, new_relation_select, builder_lists>>
    /\ run_to_end
    /\ UNCHANGED fx_vars

\* the start date is edited
date_start_input ==
    /\ user_acts
    /\ date_col_select # ""
    /\ \E d \in Days \ {date_start} : date_start' = d
    /\ UNCHANGED <<new_object_name, new_relation_select, date_col_select, date_end,
                   builder_lists>>
    /\ run_to_end
    /\ UNCHANGED fx_vars

\* the end date is edited
date_end_input ==
    /\ user_acts
    /\ date_col_select # ""
    /\ \E d \in Days \ {date_end} : date_end' = d
    /\ UNCHANGED <<new_object_name, new_relation_select, date_col_select, date_start,
                   builder_lists>>
    /\ run_to_end
    /\ UNCHANGED fx_vars

\* a box of the column editor is ticked or cleared
column_selection_editor ==
    /\ user_acts
    /\ \E c \in non_date_columns(new_relation_select) :
          new_selected_columns_state' =
              IF c \in new_selected_columns_state
              THEN new_selected_columns_state \ {c}
              ELSE new_selected_columns_state \cup {c}
    /\ UNCHANGED <<widgets, where_conditions_list, order_by_conditions_list>>
    /\ run_to_end
    /\ UNCHANGED fx_vars

\* what a run that ends in st.rerun() leaves alone besides the builder
rerun_keeps ==
    /\ date_condition' = date_block(date_col_select, date_start, date_end, date_condition)
    /\ UNCHANGED <<execute_query_request, STANDARD_SEARCH_OBJECTS, display_query, execution>>

\* 全選択 and 全解除
btn_select_all_cols_main ==
    /\ user_acts
    /\ \E all \in BOOLEAN :
          new_selected_columns_state' =
              IF all
              THEN {table_cols(new_relation_select)[i].name :
                        i \in 1..Len(table_cols(new_relation_select))}
              ELSE {}
    /\ UNCHANGED <<where_conditions_list, order_by_conditions_list>>
    /\ rerun_keeps
    /\ run_to_rerun
    /\ UNCHANGED fx_vars

\* the filter form's 追加 with a column and a value: the select box of the
\* logical operator is disabled while the list is empty
add_cond_btn ==
    /\ user_acts
    /\ Len(where_conditions_list) < MaxConditions
    /\ \E cond \in FilterInputs(new_relation_select,
                                IF Len(where_conditions_list) = 0 THEN {"AND"}
                                ELSE {"AND", "OR"}) :
          where_conditions_list' = Append(where_conditions_list, cond)
    /\ UNCHANGED <<new_selected_columns_state, order_by_conditions_list>>
    /\ rerun_keeps
    /\ run_to_rerun
    /\ UNCHANGED fx_vars

\* del where_conditions_list[i]
del_cond ==
    /\ user_acts
    /\ \E i \in 1..Len(where_conditions_list) :
          where_conditions_list' =
              SubSeq(where_conditions_list, 1, i - 1)
              \o SubSeq(where_conditions_list, i + 1, Len(where_conditions_list))
    /\ UNCHANGED <<new_selected_columns_state, order_by_conditions_list>>
    /\ rerun_keeps
    /\ run_to_rerun
    /\ UNCHANGED fx_vars

\* the sort form's 追加 with a column
add_sort_btn ==
    /\ user_acts
    /\ Len(order_by_conditions_list) < MaxSorts
    /\ \E c \in date_columns(new_relation_select) :
          order_by_conditions_list' =
              Append(order_by_conditions_list, [column |-> c, direction |-> "DESC"])
    /\ UNCHANGED <<new_selected_columns_state, where_conditions_list>>
    /\ rerun_keeps
    /\ run_to_rerun
    /\ UNCHANGED fx_vars

\* del order_by_conditions_list[i]
del_sort ==
    /\ user_acts
    /\ \E i \in 1..Len(order_by_conditions_list) :
          order_by_conditions_list' =
              SubSeq(order_by_conditions_list, 1, i - 1)
              \o SubSeq(order_by_conditions_list, i + 1, Len(order_by_conditions_list))
    /\ UNCHANGED <<new_selected_columns_state, where_conditions_list>>
    /\ rerun_keeps
    /\ run_to_rerun
    /\ UNCHANGED fx_vars

\* the SQL preview of the page, drawn by every run that passes the builder
preview ==
    generated_query(new_relation_select, new_selected_columns_state, date_condition,
                    where_conditions_list, order_by_conditions_list)

\* can_save, after the date block of the run
can_save(date_cond) ==
    new_object_name # "" /\ new_relation_select # "" /\ date_cond # EmptyDateCondition

\* save_standard_search_object whose failed INSERT leaves a row behind
save_standard_search_object_adds_always(rows, object_data, inserted) ==
    Append(rows, [object_id |-> object_data.object_id,
                  object_name |-> object_data.object_name,
                  search_query |-> object_data.search_query,
                  execution_count |-> 0, last_executed |-> "NULL", is_favorite |-> FALSE])

\* save_standard_search_object(object_data): the INSERT adds the row, with
\* the table's defaults for the other columns, or fails and adds nothing
save_standard_search_object(rows, object_data, inserted) ==
    IF inserted
    THEN Append(rows, [object_id |-> object_data.object_id,
                       object_name |-> object_data.object_name,
                       search_query |-> object_data.search_query,
                       execution_count |-> 0, last_executed |-> "NULL", is_favorite |-> FALSE])
    ELSE rows

\* 保存: the button is enabled when can_save holds
save_new_object_main ==
    /\ user_acts
    /\ LET date_cond == date_block(date_col_select, date_start, date_end, date_condition)
           object_data ==
               [object_id |-> Len(STANDARD_SEARCH_OBJECTS) + 1,
                object_name |-> new_object_name,
                search_query |->
                    generated_query(new_relation_select, new_selected_columns_state,
                                    date_cond, where_conditions_list,
                                    order_by_conditions_list)]
       IN  /\ can_save(date_cond)
           /\ \E inserted \in BOOLEAN :
                 /\ inserted => Len(STANDARD_SEARCH_OBJECTS) < MaxObjects
                 /\ STANDARD_SEARCH_OBJECTS' =
                        save_standard_search_object(STANDARD_SEARCH_OBJECTS, object_data,
                                                    inserted)
                 /\ IF inserted
                    THEN /\ new_selected_columns_state' = {}
                         /\ where_conditions_list' = << >>
                         /\ order_by_conditions_list' = << >>
                         /\ date_condition' = EmptyDateCondition
                         /\ UNCHANGED <<execute_query_request, execution>>
                         /\ run_to_rerun
                    ELSE /\ UNCHANGED <<widgets, builder_lists>>
                         /\ date_condition' = date_cond
                         /\ \E outcome \in QueryOutcomes : page_end(outcome)
                         /\ rerun' = FALSE
    /\ UNCHANGED display_query
    /\ UNCHANGED fx_vars

\* update_execution_count without the WHERE object_id = ?
update_execution_count_of_all(rows, object_id, updated) ==
    IF updated
    THEN [i \in 1..Len(rows) |->
             [rows[i] EXCEPT !.execution_count = @ + 1,
                             !.last_executed = "CURRENT_TIMESTAMP"]]
    ELSE rows

\* update_execution_count(object_id): the UPDATE counts one execution of the
\* rows with that id and sets their last_executed, or fails and changes
\* nothing
update_execution_count(rows, object_id, updated) ==
    IF updated
    THEN [i \in 1..Len(rows) |->
             IF rows[i].object_id = object_id
             THEN [rows[i] EXCEPT !.execution_count = @ + 1,
                                  !.last_executed = "CURRENT_TIMESTAMP"]
             ELSE rows[i]]
    ELSE rows

\* the handler of both execute buttons for the object obj
execute_clicked(obj, all_rows, limit_rows, show_sql, updated) ==
    /\ STANDARD_SEARCH_OBJECTS' =
           update_execution_count(STANDARD_SEARCH_OBJECTS, obj.object_id, updated)
    /\ execute_query_request' =
           <<[query |-> obj.search_query, all_rows |-> all_rows, limit_rows |-> limit_rows,
              show_sql |-> show_sql]>>
    /\ display_query' =
           IF show_sql THEN <<with_limit(obj.search_query, all_rows, limit_rows)>> ELSE << >>
    /\ execution' = << >>
    /\ date_condition' = date_block(date_col_select, date_start, date_end, date_condition)
    /\ UNCHANGED builder_lists
    /\ run_to_rerun

\* 実行 of an object in the object list
exec_btn ==
    /\ user_acts
    /\ \E i \in 1..Len(STANDARD_SEARCH_OBJECTS) :
       \E all_rows \in BOOLEAN, limit_rows \in {"100"}, show_sql \in BOOLEAN,
          updated \in BOOLEAN :
          execute_clicked(STANDARD_SEARCH_OBJECTS[i], all_rows, limit_rows, show_sql, updated)
    /\ UNCHANGED fx_vars

\* 実行 of an object in the favourites
fav_exec_btn ==
    /\ user_acts
    /\ \E i \in 1..Len(STANDARD_SEARCH_OBJECTS) :
       \E all_rows \in BOOLEAN, limit_rows \in {"100"}, show_sql \in BOOLEAN,
          updated \in BOOLEAN :
          /\ STANDARD_SEARCH_OBJECTS[i].is_favorite
          /\ execute_clicked(STANDARD_SEARCH_OBJECTS[i], all_rows, limit_rows, show_sql,
                             updated)
    /\ UNCHANGED fx_vars

\* お気に入り of an object that is not a favourite: add_to_favorites sets
\* is_favorite of the rows with that id and the run ends in st.rerun(), or
\* its UPDATE fails and the run goes on to the end of the page
favorite_btn ==
    /\ user_acts
    /\ \E i \in 1..Len(STANDARD_SEARCH_OBJECTS) :
          /\ ~STANDARD_SEARCH_OBJECTS[i].is_favorite
          /\ \E updated \in BOOLEAN :
                IF updated
                THEN /\ STANDARD_SEARCH_OBJECTS' =
                            [j \in 1..Len(STANDARD_SEARCH_OBJECTS) |->
                                IF STANDARD_SEARCH_OBJECTS[j].object_id
                                       = STANDARD_SEARCH_OBJECTS[i].object_id
                                THEN [STANDARD_SEARCH_OBJECTS[j] EXCEPT !.is_favorite = TRUE]
                                ELSE STANDARD_SEARCH_OBJECTS[j]]
                     /\ UNCHANGED <<execute_query_request, execution>>
                     /\ run_to_rerun
                ELSE /\ UNCHANGED <<STANDARD_SEARCH_OBJECTS, widgets>>
                     /\ \E outcome \in QueryOutcomes : page_end(outcome)
                     /\ rerun' = FALSE
    /\ date_condition' = date_block(date_col_select, date_start, date_end, date_condition)
    /\ UNCHANGED <<builder_lists, display_query>>
    /\ UNCHANGED fx_vars

\* the run that st.rerun() starts: it reaches the end of the page, or the
\* SELECT of the favourites raises and the run ends before it
script_rerun ==
    /\ rerun
    /\ UNCHANGED <<widgets, builder_lists, clock>>
    /\ \E reaches_end \in BOOLEAN :
          IF reaches_end
          THEN run_to_end
          ELSE /\ date_condition' =
                      date_block(date_col_select, date_start, date_end, date_condition)
               /\ rerun' = FALSE
               /\ UNCHANGED <<last_result_df, execute_query_request, execution,
                              STANDARD_SEARCH_OBJECTS, display_query>>
    /\ UNCHANGED fx_vars

SearchInit ==
    /\ main_load(<<BaseRate>>, DefaultSidebar)
    /\ session_state_init(SetupRows)

SearchNext ==
    \/ new_object_name_input
    \/ new_relation_select_input
    \/ date_col_select_input
    \/ date_start_input
    \/ date_end_input
    \/ column_selection_editor
    \/ btn_select_all_cols_main
    \/ add_cond_btn
    \/ del_cond
    \/ add_sort_btn
    \/ del_sort
    \/ save_new_object_main
    \/ exec_btn
    \/ fav_exec_btn
    \/ favorite_btn
    \/ script_rerun

SearchSpec == SearchInit /\ [][SearchNext]_vars

(***************************************************************************)
(* Vocabulary of the properties.                                           *)
(***************************************************************************)
Called == result # 0

In == frames[df]

Out == frames[result]

N == FrameLen(In)

DerivedColumns ==
    {"MA_5", "MA_20", "MA_50", "MA_200", "BB_Middle", "BB_Upper", "BB_Lower", "RSI",
     "MACD", "MACD_Signal", "MACD_Histogram", "Stoch_K", "Stoch_D", "ATR", "DI_Plus",
     "DI_Minus", "DX", "ADX", "Volatility", "Daily_Return"}

\* the rate of row i as an integer (the model's rates are whole numbers)
Rate(i) == In["EXCHANGE_RATE"][i].n

\* the "no value" sentinel in a cell of any column
NoValue(v) ==
    IF "m" \in DOMAIN v THEN FALSE
    ELSE IF "a" \in DOMAIN v THEN SurdIsNaN(v)
    ELSE IsNaN(v)

IsConstant == \A i \in 1..N : Rate(i) = Rate(1)

(***************************************************************************)
(* C1: the call returns a frame with the rows of the input, in the         *)
(* input's order: every column of the result has N cells, every input      *)
(* column has at each row the value the input had before the call, and     *)
(* every derived indicator column is present.                              *)
(***************************************************************************)
C1_SameRowsAugmented ==
    [][(result = 0 /\ result' # 0) =>
         /\ InputColumns \subseteq Columns(frames'[result'])
         /\ DerivedColumns \subseteq Columns(frames'[result'])
         /\ \A c \in Columns(frames'[result']) : Len(frames'[result'][c]) = FrameLen(frames[df])
         /\ \A c \in InputColumns : frames'[result'][c] = frames[df][c]]_vars

C1_Witness ==
    /\ Called
    /\ N = 5
    /\ Out["DATE"] = <<1, 2, 3, 4, 5>>
    /\ \E i \in 1..N : Rate(i) # Rate(1)
    /\ ~NoValue(Out["MA_5"][5])

(***************************************************************************)
(* C2: the call leaves the caller's input frame as it was: the same        *)
(* columns with the same values; the derived columns are added to the      *)
(* returned copy only.                                                     *)
(***************************************************************************)
C2_InputUnchanged ==
    [][(result = 0 /\ result' # 0) =>
         /\ df' = df
         /\ frames'[df] = frames[df]
         /\ Columns(frames'[df]) = InputColumns]_vars

C2_Witness ==
    /\ Called
    /\ result # df
    /\ N >= 1
    /\ Columns(In) = InputColumns
    /\ DerivedColumns \subseteq Columns(Out)

(***************************************************************************)
(* Window statistics of the input rates, computed on the whole numbers:    *)
(* the reference values of the properties below.                           *)
(***************************************************************************)
RECURSIVE RateSum(_, _)
RateSum(lo, hi) ==
    IF lo > hi THEN 0
    ELSE IF lo = hi THEN Rate(lo)
    ELSE RateSum(lo, (lo + hi) \div 2) + RateSum(((lo + hi) \div 2) + 1, hi)

RECURSIVE RateSumSq(_, _)
RateSumSq(lo, hi) ==
    IF lo > hi THEN 0
    ELSE IF lo = hi THEN Rate(lo) * Rate(lo)
    ELSE RateSumSq(lo, (lo + hi) \div 2) + RateSumSq(((lo + hi) \div 2) + 1, hi)

\* rows i-k+1..i, the trailing window of size k that ends at row i
WinMean(i, k) == Norm(RateSum(i - k + 1, i), k)

WinMax(i, k) ==
    CHOOSE m \in {Rate(j) : j \in (i - k + 1)..i} : \A j \in (i - k + 1)..i : Rate(j) <= m

WinMin(i, k) ==
    CHOOSE m \in {Rate(j) : j \in (i - k + 1)..i} : \A j \in (i - k + 1)..i : Rate(j) >= m

\* sum of squared deviations from the window mean, times k
WinDev(i, k) == k * RateSumSq(i - k + 1, i) - RateSum(i - k + 1, i) * RateSum(i - k + 1, i)

\* population variance (divide by k) and sample variance (divide by k - 1)
WinPopVar(i, k) == Norm(WinDev(i, k), k * k)

WinSampleVar(i, k) == Norm(WinDev(i, k), k * (k - 1))

\* day-over-day change of row j; row 1 has none
Delta(j) == Rate(j) - Rate(j - 1)

RECURSIVE GainSum(_, _)
GainSum(lo, hi) ==
    IF lo > hi THEN 0
    ELSE (IF lo > 1 /\ Delta(lo) > 0 THEN Delta(lo) ELSE 0) + GainSum(lo + 1, hi)

RECURSIVE LossSum(_, _)
LossSum(lo, hi) ==
    IF lo > hi THEN 0
    ELSE (IF lo > 1 /\ Delta(lo) < 0 THEN -Delta(lo) ELSE 0) + LossSum(lo + 1, hi)

(***************************************************************************)
(* C4: no input makes the call fail.  No exception escapes; a series       *)
(* shorter than a field's window leaves that field "no value" at every     *)
(* row; a constant series leaves RSI, Stoch_K, DI_Plus, DI_Minus and DX    *)
(* "no value" at every row (their 0/0 is NaN, not an error and not a       *)
(* number).                                                                *)
(***************************************************************************)
FieldWindow(c) ==
    CASE c = "MA_5" -> 5
      [] c = "MA_50" -> 50
      [] c = "MA_200" -> 200
      [] c \in {"MA_20", "BB_Middle", "BB_Upper", "BB_Lower", "Volatility"} -> 20
      [] c \in {"RSI", "Stoch_K", "ATR", "DI_Plus", "DI_Minus", "DX", "ADX"} -> 14
      [] c = "Stoch_D" -> 3

WindowedFields ==
    {"MA_5", "MA_20", "MA_50", "MA_200", "BB_Middle", "BB_Upper", "BB_Lower", "Volatility",
     "RSI", "Stoch_K", "Stoch_D", "ATR", "DI_Plus", "DI_Minus", "DX", "ADX"}

C4_NoErrorOnDegenerateInput ==
    /\ ~raised
    /\ Called =>
        /\ Columns(Out) = InputColumns \cup DerivedColumns \cup {"TR", "DM_Plus", "DM_Minus", "DX"}
        /\ \A c \in WindowedFields :
              N < FieldWindow(c) => \A i \in 1..N : NoValue(Out[c][i])
        /\ IsConstant =>
              \A i \in 1..N : \A c \in {"RSI", "Stoch_K", "DI_Plus", "DI_Minus", "DX"} :
                  IsNaN(Out[c][i])

C4_Witness ==
    /\ Called
    /\ ~raised
    /\ IsConstant
    /\ N > 14
    /\ Out["ATR"][N] = Zero
    /\ IsNaN(Out["DI_Plus"][N])
    /\ IsNaN(Out["RSI"][N])
    /\ IsNaN(Out["Stoch_K"][N])

(***************************************************************************)
(* C5: every rolling field on the rate uses the trailing window that       *)
(* includes the current row.  With window k the field is "no value" at     *)
(* the rows before the k-th and from the k-th row on it is the statistic   *)
(* of exactly the rows i-k+1..i.                                           *)
(***************************************************************************)
C5_TrailingWindows ==
    Called =>
        \A i \in 1..N :
            /\ Out["MA_5"][i] = (IF i < 5 THEN NaN ELSE WinMean(i, 5))
            /\ Out["MA_20"][i] = (IF i < 20 THEN NaN ELSE WinMean(i, 20))
            /\ Out["MA_50"][i] = (IF i < 50 THEN NaN ELSE WinMean(i, 50))
            /\ Out["MA_200"][i] = (IF i < 200 THEN NaN ELSE WinMean(i, 200))
            /\ Out["BB_Middle"][i] = (IF i < 20 THEN NaN ELSE WinMean(i, 20))
            /\ Out["BB_Upper"][i] =
                  (IF i < 20 THEN SurdNaN
                   ELSE MkSurd(WinMean(i, 20), R(2), WinSampleVar(i, 20)))
            /\ Out["BB_Lower"][i] =
                  (IF i < 20 THEN SurdNaN
                   ELSE MkSurd(WinMean(i, 20), R(-2), WinSampleVar(i, 20)))
            /\ Out["Volatility"][i] =
                  (IF i < 20 THEN SurdNaN ELSE MkSurd(Zero, R(1), WinSampleVar(i, 20)))
            /\ Out["Stoch_K"][i] =
                  (IF i < 14 THEN NaN
                   ELSE Norm(100 * (Rate(i) - WinMin(i, 14)), WinMax(i, 14) - WinMin(i, 14)))

C5_Witness ==
    /\ Called
    /\ N > 200
    /\ IsNaN(Out["MA_200"][199])
    /\ ~IsNaN(Out["MA_200"][200])
    /\ Out["MA_200"][N] # Out["MA_200"][N - 1]
    /\ Out["MA_50"][N] # Out["MA_50"][N - 1]
    /\ Out["MA_5"][N] # Out["MA_5"][N - 1]
    /\ ~IsNaN(Out["Stoch_K"][N])

(***************************************************************************)
(* C6 as stated: for a series of 0 or 1 rows every windowed field, the     *)
(* three MACD fields included, is "no value", and the Daily_Return of the  *)
(* first row of every series is "no value".                                *)
(***************************************************************************)
MacdFields == {"MACD", "MACD_Signal", "MACD_Histogram"}

C6_AsStated ==
    Called =>
        /\ N <= 1 => \A c \in WindowedFields \cup MacdFields :
                        \A i \in 1..N : NoValue(Out[c][i])
        /\ N >= 1 => NoValue(Out["Daily_Return"][1])

(***************************************************************************)
(* C6 amended: for a series of 0 or 1 rows every rolling-window field is   *)
(* "no value"; the three MACD fields are not: the EMAs are seeded with     *)
(* the first rate, so MACD, MACD_Signal and MACD_Histogram are 0 at the    *)
(* first row of every series.  The Daily_Return of the first row of        *)
(* every series is "no value".                                             *)
(***************************************************************************)
C6_ShortSeries ==
    Called =>
        /\ N <= 1 => \A c \in WindowedFields : \A i \in 1..N : NoValue(Out[c][i])
        /\ N >= 1 => /\ \A c \in MacdFields : ~NoValue(Out[c][1]) /\ SVIsZero(Out[c][1])
                     /\ NoValue(Out["Daily_Return"][1])
                     /\ \A i \in 2..N : ~NoValue(Out["Daily_Return"][i])

C6_Witness ==
    /\ Called
    /\ N = 1
    /\ IsNaN(Out["MA_5"][1])
    /\ IsNaN(Out["Daily_Return"][1])
    /\ SVIsZero(Out["MACD"][1])

(***************************************************************************)
(* C7 as stated: the rolling standard deviation of the Bollinger bands     *)
(* and of Volatility is the population standard deviation of the           *)
(* trailing 20 rates (squared deviations divided by 20).                   *)
(***************************************************************************)
C7_AsStated ==
    Called =>
        \A i \in 20..N :
            /\ Out["Volatility"][i] = MkSurd(Zero, R(1), WinPopVar(i, 20))
            /\ Out["BB_Upper"][i] = MkSurd(Out["MA_20"][i], R(2), WinPopVar(i, 20))
            /\ Out["BB_Lower"][i] = MkSurd(Out["MA_20"][i], R(-2), WinPopVar(i, 20))

(***************************************************************************)
(* C7 amended: the rolling standard deviation is the sample standard       *)
(* deviation of the trailing 20 rates (squared deviations divided by 19,   *)
(* the default ddof=1 of pandas): BB_Upper = MA_20 + 2*std20,              *)
(* BB_Lower = MA_20 - 2*std20, Volatility = std20.                         *)
(***************************************************************************)
C7_SampleStd ==
    Called =>
        \A i \in 20..N :
            /\ Out["Volatility"][i] = MkSurd(Zero, R(1), Norm(WinDev(i, 20), 20 * 19))
            /\ Out["BB_Upper"][i] = MkSurd(Out["MA_20"][i], R(2), Norm(WinDev(i, 20), 20 * 19))
            /\ Out["BB_Lower"][i] = MkSurd(Out["MA_20"][i], R(-2), Norm(WinDev(i, 20), 20 * 19))

C7_Witness ==
    /\ Called
    /\ N >= 20
    /\ ~SurdIsNaN(Out["Volatility"][N])
    /\ Out["Volatility"][N].v # Zero
    /\ Out["BB_Upper"][N].b = R(2)

(***************************************************************************)
(* C8: at every row where the three Bollinger fields have a value,         *)
(* BB_Upper >= BB_Middle >= BB_Lower, and BB_Middle is MA_20.              *)
(***************************************************************************)
C8_BandsOrdered ==
    Called =>
        \A i \in 1..N :
            (/\ ~NoValue(Out["BB_Upper"][i])
             /\ ~NoValue(Out["BB_Middle"][i])
             /\ ~NoValue(Out["BB_Lower"][i]))
            => /\ SurdGe(Out["BB_Upper"][i], Out["BB_Middle"][i])
               /\ SurdLe(Out["BB_Lower"][i], Out["BB_Middle"][i])
               /\ Out["BB_Middle"][i] = Out["MA_20"][i]

C8_Witness ==
    /\ Called
    /\ N >= 20
    /\ ~NoValue(Out["BB_Middle"][N])
    /\ SurdSignMinus(Out["BB_Upper"][N], Out["BB_Middle"][N]) = 1
    /\ SurdSignMinus(Out["BB_Lower"][N], Out["BB_Middle"][N]) = -1

(***************************************************************************)
(* C9: from the 14th row on, wherever the maximum and the minimum of the   *)
(* trailing 14 rates differ, Stoch_K = 100*(rate - min14)/(max14 - min14)  *)
(* has a value in [0,100]: 100 when the rate is the window maximum, 0      *)
(* when it is the window minimum.                                          *)
(***************************************************************************)
C9_StochKRange ==
    Called =>
        \A i \in 14..N :
            WinMax(i, 14) # WinMin(i, 14) =>
                /\ IsFinite(Out["Stoch_K"][i])
                /\ Out["Stoch_K"][i] =
                      Norm(100 * (Rate(i) - WinMin(i, 14)), WinMax(i, 14) - WinMin(i, 14))
                /\ Ge(Out["Stoch_K"][i], Zero)
                /\ Le(Out["Stoch_K"][i], R(100))
                /\ Rate(i) = WinMax(i, 14) => Out["Stoch_K"][i] = R(100)
                /\ Rate(i) = WinMin(i, 14) => Out["Stoch_K"][i] = Zero

C9_Witness ==
    /\ Called
    /\ N > 14
    /\ \E i \in 14..N : Out["Stoch_K"][i] = R(100)
    /\ \E i \in 14..N : Out["Stoch_K"][i] = Zero
    /\ \E i \in 14..N : Gt(Out["Stoch_K"][i], Zero) /\ Lt(Out["Stoch_K"][i], R(100))

(***************************************************************************)
(* C10: wherever RSI has a value it lies in [0,100], and it is             *)
(* 100 - 100/(1+RS) for RS the ratio of the summed gains to the summed     *)
(* losses of the trailing 14 rows: 100*gains/(gains+losses).               *)
(***************************************************************************)
C10_RsiRange ==
    Called =>
        \A i \in 1..N :
            ~IsNaN(Out["RSI"][i]) =>
                /\ i >= 14
                /\ Ge(Out["RSI"][i], Zero)
                /\ Le(Out["RSI"][i], R(100))
                /\ Out["RSI"][i] =
                      Norm(100 * GainSum(i - 13, i), GainSum(i - 13, i) + LossSum(i - 13, i))

C10_Witness ==
    /\ Called
    /\ \E i \in 1..N : Out["RSI"][i] = R(100)
    /\ \E i \in 1..N : Out["RSI"][i] = Zero
    /\ \E i \in 1..N : Gt(Out["RSI"][i], Zero) /\ Lt(Out["RSI"][i], R(100))

(***************************************************************************)
(* C11: for a strictly increasing series of at least 15 rows the RSI of    *)
(* the last row is exactly 100: the average loss is zero, the average      *)
(* gain is positive, and the division by the zero loss saturates (it is    *)
(* neither "no value" nor an error).                                       *)
(***************************************************************************)
StrictlyIncreasing == \A i \in 2..N : Rate(i) > Rate(i - 1)

C11_RsiSaturatesAt100 ==
    /\ (df # 0 /\ FrameLen(In) >= 15 /\ StrictlyIncreasing) => ~raised
    /\ (Called /\ N >= 15 /\ StrictlyIncreasing) =>
          /\ Out["RSI"][N] = R(100)
          /\ LossSum(N - 13, N) = 0
          /\ GainSum(N - 13, N) > 0

C11_Witness ==
    /\ Called
    /\ N >= 15
    /\ StrictlyIncreasing
    /\ \E i \in 3..N : Delta(i) # Delta(i - 1)
    /\ Out["RSI"][N] = R(100)

(***************************************************************************)
(* C12: for a constant series of at least 200 rows with rate c, MA_5,      *)
(* MA_20, MA_50 and MA_200 are c at every row where they have a value,     *)
(* and wherever the Bollinger bands have a value the upper, middle and     *)
(* lower band are all c (the width is 0).                                  *)
(***************************************************************************)
C12_ConstantSeries ==
    (Called /\ N >= 200 /\ IsConstant) =>
        \A i \in 1..N :
            /\ \A c \in {"MA_5", "MA_20", "MA_50", "MA_200"} :
                  IF i >= FieldWindow(c) THEN Out[c][i] = R(Rate(1)) ELSE IsNaN(Out[c][i])
            /\ IF i >= 20
               THEN /\ Out["BB_Middle"][i] = R(Rate(1))
                    /\ Out["BB_Upper"][i] = MkSurd(R(Rate(1)), Zero, Zero)
                    /\ Out["BB_Lower"][i] = MkSurd(R(Rate(1)), Zero, Zero)
               ELSE /\ IsNaN(Out["BB_Middle"][i])
                    /\ SurdIsNaN(Out["BB_Upper"][i])
                    /\ SurdIsNaN(Out["BB_Lower"][i])

C12_Witness ==
    /\ Called
    /\ N >= 200
    /\ IsConstant
    /\ Out["MA_200"][N] = R(BaseRate)
    /\ Out["MA_5"][5] = R(BaseRate)
    /\ Out["BB_Upper"][N] = Out["BB_Lower"][N]
    /\ ~SurdIsNaN(Out["BB_Upper"][N])

(***************************************************************************)
(* C13: MACD is EMA12 - EMA26 of the rate, MACD_Signal is EMA9 of MACD     *)
(* and MACD_Histogram is MACD - MACD_Signal at every row, each EMA being   *)
(* E[0] = x[0], E[t] = a*x[t] + (1-a)*E[t-1] with a = 2/(span+1), with     *)
(* a value from row 0 on.  Eliminating the two EMAs, MACD is the one       *)
(* series M with M[0] = 0 and, for a1 = 2/13, a2 = 2/27,                   *)
(*   M[t] - (2-a1-a2)*M[t-1] + (1-a1)*(1-a2)*M[t-2] = (a1-a2)*(x[t]-x[t-1])*)
(* (terms before row 0 are 0); the signal S has S[0] = M[0] and            *)
(* S[t] = M[t]/5 + 4*S[t-1]/5.  All three are 0 at row 0 and at every      *)
(* row of a constant series.                                               *)
(***************************************************************************)
SVScale(x, k) == SV(x.s * Sign(k), BigMulSmall(x.m, Abs(k)), x.e)

Macd(t) == IF t < 1 THEN SVFromInt(0) ELSE Out["MACD"][t]

\* EwmDen^2 times the left-hand side of the MACD recurrence at row t
MacdLhs(t) ==
    LET b1 == EwmDen - EwmNum(12)
        b2 == EwmDen - EwmNum(26)
    IN  SVAdd(SVSub(SVScale(SVScale(Macd(t), EwmDen), EwmDen),
                    SVScale(SVScale(Macd(t - 1), EwmDen), b1 + b2)),
              SVScale(SVScale(Macd(t - 2), b1), b2))

\* EwmDen^2 times its right-hand side, a whole number
MacdRhs(t) == IF t < 2 THEN 0 ELSE EwmDen * (EwmNum(12) - EwmNum(26)) * Delta(t)

\* the recurrence at the rows lo..hi; st.pw = EwmDen^st.k is carried along
RECURSIVE MacdRowsOk(_, _, _)
MacdRowsOk(lo, hi, st) ==
    IF lo > hi THEN st
    ELSE IF lo = hi
    THEN LET lhs == MacdLhs(lo)
             r   == MacdRhs(lo)
             pwe == IF lhs.e = st.k THEN st.pw
                    ELSE IF lhs.e = st.k + 1 THEN BigMulSmall(st.pw, EwmDen)
                    ELSE BigPowDen(lhs.e)
         IN  IF lhs.s = 0 THEN [ok |-> st.ok /\ r = 0, k |-> st.k, pw |-> st.pw]
             ELSE [ok |-> /\ st.ok
                          /\ lhs.s = Sign(r)
                          /\ BigCmp(lhs.m, BigMul(pwe, BigNat(Abs(r)))) = 0,
                   k |-> lhs.e, pw |-> pwe]
    ELSE LET mid   == (lo + hi) \div 2
             lower == MacdRowsOk(lo, mid, st)
         IN  IF lower.k >= 0 THEN MacdRowsOk(mid + 1, hi, lower) ELSE lower

SignalRowOk(t) ==
    IF t = 1 THEN Out["MACD_Signal"][1] = Out["MACD"][1]
    ELSE SVIsZero(SVSub(SVScale(Out["MACD_Signal"][t], EwmDen),
                        SVAdd(SVScale(Out["MACD"][t], EwmNum(9)),
                              SVScale(Out["MACD_Signal"][t - 1], EwmDen - EwmNum(9)))))

HistogramRowOk(t) ==
    SVIsZero(SVSub(SVAdd(Out["MACD_Histogram"][t], Out["MACD_Signal"][t]), Out["MACD"][t]))

C13_MacdRecursion ==
    Called =>
        /\ \A c \in MacdFields : \A t \in 1..N : "m" \in DOMAIN Out[c][t]
        /\ MacdRowsOk(1, N, [ok |-> TRUE, k |-> 0, pw |-> <<1>>]).ok
        /\ \A t \in 1..N : SignalRowOk(t) /\ HistogramRowOk(t)
        /\ N >= 1 => \A c \in MacdFields : SVIsZero(Out[c][1])
        /\ IsConstant => \A c \in MacdFields : \A t \in 1..N : SVIsZero(Out[c][t])

C13_Witness ==
    /\ Called
    /\ N > SwitchAt
    /\ ~IsConstant
    /\ \A c \in MacdFields : SVIsZero(Out[c][1])
    /\ Out["MACD"][N].s = -1
    /\ Out["MACD_Signal"][N].s = 1
    /\ Out["MACD_Histogram"][N].s = -1
    /\ \E t \in 2..N : Out["MACD"][t].s = 1

(***************************************************************************)
(* C14: Daily_Return at a row t >= 1 is the simple return                  *)
(* (rate[t] - rate[t-1]) / rate[t-1], and MA_5 at a row that has a value   *)
(* is the arithmetic mean of the 5 most recent rates.  For the rates       *)
(* 100, 101, 99, 102, 105: Daily_Return[1] = 1/100, MA_5 has no value at   *)
(* the indexes 0..3 and is 507/5 = 101.4 at index 4.                       *)
(***************************************************************************)
C14_SimpleReturnAndMean ==
    Called =>
        /\ \A t \in 2..N : Out["Daily_Return"][t] = Norm(Rate(t) - Rate(t - 1), Rate(t - 1))
        /\ \A t \in 5..N : Out["MA_5"][t] = Norm(RateSum(t - 4, t), 5)
        /\ In["EXCHANGE_RATE"] = [i \in 1..5 |-> R(<<100, 101, 99, 102, 105>>[i])] =>
              /\ Out["Daily_Return"][2] = Norm(1, 100)
              /\ \A i \in 1..4 : IsNaN(Out["MA_5"][i])
              /\ Out["MA_5"][5] = Norm(1014, 10)

C14_Witness ==
    /\ Called
    /\ N = 5
    /\ \A i \in 1..5 : Rate(i) = <<100, 101, 99, 102, 105>>[i]
    /\ Out["Daily_Return"][2] = Norm(1, 100)
    /\ Out["MA_5"][5] = Norm(507, 5)
    /\ Lt(Out["Daily_Return"][3], Zero)

(***************************************************************************)
(* The page of a single pair: the latest row of the frame it shows.        *)
(***************************************************************************)
Latest(c) == Out[c][N]

SignalNames == [k \in 1..Len(tech_data) |-> tech_data[k][1]]

\* the rows of tech_data that report the indicator called name
SignalRows(name) == {k \in 1..Len(tech_data) : tech_data[k][1] = name}

\* v > r for a cell v that has a value and a whole number r
Above(v, r) == v.d > 0 /\ v.n > r * v.d

Below(v, r) == v.d > 0 /\ v.n < r * v.d

(***************************************************************************)
(* C15: the signal of the latest row uses fixed strict thresholds.  RSI    *)
(* above 70 is overbought, below 30 oversold, otherwise neutral (70 and    *)
(* 30 themselves are neutral); Stoch_K above 80 is overbought, below 20    *)
(* oversold, otherwise neutral; ADX above 25 is a strong trend, otherwise  *)
(* above 20 a weak trend (25 itself is weak), otherwise ranging (20        *)
(* itself is ranging).  Every indicator that has a value at the latest     *)
(* row gets exactly one label.                                             *)
(***************************************************************************)
C15_StrictThresholds ==
    rendered =>
        /\ \A k \in SignalRows("RSI") :
              /\ tech_data[k][2] = Latest("RSI")
              /\ tech_data[k][3] = (IF Above(Latest("RSI"), 70) THEN "overbought"
                                    ELSE IF Below(Latest("RSI"), 30) THEN "oversold"
                                    ELSE "neutral")
              /\ Latest("RSI") \in {R(70), R(30)} => tech_data[k][3] = "neutral"
        /\ \A k \in SignalRows("Stochastic %K") :
              /\ tech_data[k][2] = Latest("Stoch_K")
              /\ tech_data[k][3] = (IF Above(Latest("Stoch_K"), 80) THEN "overbought"
                                    ELSE IF Below(Latest("Stoch_K"), 20) THEN "oversold"
                                    ELSE "neutral")
              /\ Latest("Stoch_K") \in {R(80), R(20)} => tech_data[k][3] = "neutral"
        /\ \A k \in SignalRows("ADX") :
              /\ tech_data[k][2] = Latest("ADX")
              /\ tech_data[k][3] = (IF Above(Latest("ADX"), 25) THEN "strong trend"
                                    ELSE IF Above(Latest("ADX"), 20) THEN "weak trend"
                                    ELSE "ranging")
              /\ Latest("ADX") = R(25) => tech_data[k][3] = "weak trend"
              /\ Latest("ADX") = R(20) => tech_data[k][3] = "ranging"
        /\ ~IsNaN(Latest("RSI")) => Cardinality(SignalRows("RSI")) = 1
        /\ ~IsNaN(Latest("Stoch_K")) => Cardinality(SignalRows("Stochastic %K")) = 1
        /\ ~IsNaN(Latest("ADX")) => Cardinality(SignalRows("ADX")) = 1

C15_Witness ==
    /\ rendered
    /\ Latest("ADX") = R(25)
    /\ Latest("Stoch_K") = R(80)
    /\ tech_data = <<<<"RSI", Norm(125, 2), "neutral">>,
                     <<"Stochastic %K", R(80), "neutral">>,
                     <<"ADX", R(25), "weak trend">>>>

(***************************************************************************)
(* C16: an indicator whose value at the latest row is "no value" has no    *)
(* row in the classification (it is not reported as neutral or ranging):   *)
(* the rows are exactly those of RSI, Stoch_K and ADX that have a value    *)
(* at the latest row, in that order.                                       *)
(***************************************************************************)
C16_UndefinedOmitted ==
    rendered =>
        /\ SignalNames =
              (IF IsNaN(Latest("RSI")) THEN << >> ELSE <<"RSI">>)
              \o (IF IsNaN(Latest("Stoch_K")) THEN << >> ELSE <<"Stochastic %K">>)
              \o (IF IsNaN(Latest("ADX")) THEN << >> ELSE <<"ADX">>)
        /\ \A k \in 1..Len(tech_data) : ~IsNaN(tech_data[k][2])

C16_Witness ==
    /\ rendered
    /\ IsNaN(Latest("Stoch_K"))
    /\ ~IsNaN(Latest("RSI"))
    /\ ~IsNaN(Latest("ADX"))
    /\ Len(tech_data) = 2
    /\ tech_data[1][1] = "RSI"
    /\ tech_data[2][1] = "ADX"

(***************************************************************************)
(* C17: the trend of the summary is "up" exactly when the last rate is     *)
(* strictly greater than the first rate of the last 10 rows (of all rows   *)
(* when there are fewer than 10), and "down" otherwise, also when the two  *)
(* are equal or the series has a single row.                               *)
(***************************************************************************)
C17_RecentTrend ==
    (rendered /\ ai_result.requested) =>
        /\ ai_result.recent_trend \in {"up", "down"}
        /\ ai_result.recent_trend = "up" <=> Rate(N) > Rate(IF N < 10 THEN 1 ELSE N - 9)

C17_Witness ==
    /\ rendered
    /\ ai_result.requested
    /\ N > 10
    /\ Rate(N) > Rate(N - 9)
    /\ Rate(N) <= Rate(1)
    /\ ai_result.recent_trend = "up"

(***************************************************************************)
(* C18 as stated: the standard deviation of the summary statistics over    *)
(* all rates (the volatility of the narrative prompt and the standard      *)
(* deviation of the statistics table) is the population standard           *)
(* deviation, the root of the squared deviations divided by N.             *)
(***************************************************************************)
RECURSIVE RateDevSum(_, _)
RateDevSum(lo, hi) ==
    IF lo > hi THEN 0
    ELSE IF lo = hi THEN Rate(lo) - Rate(1)
    ELSE RateDevSum(lo, (lo + hi) \div 2) + RateDevSum(((lo + hi) \div 2) + 1, hi)

RECURSIVE RateDevSumSq(_, _)
RateDevSumSq(lo, hi) ==
    IF lo > hi THEN 0
    ELSE IF lo = hi THEN (Rate(lo) - Rate(1)) * (Rate(lo) - Rate(1))
    ELSE RateDevSumSq(lo, (lo + hi) \div 2) + RateDevSumSq(((lo + hi) \div 2) + 1, hi)

\* N times the sum of the squared deviations from the mean of all rates
AllDev == N * RateDevSumSq(1, N) - RateDevSum(1, N) * RateDevSum(1, N)

PopulationStd == Sqrt(Norm(AllDev, N * N))

SampleStd == IF N < 2 THEN SurdNaN ELSE Sqrt(Norm(AllDev, N * (N - 1)))

C18_AsStated ==
    rendered =>
        /\ stats_df.std = PopulationStd
        /\ ai_result.requested => ai_result.volatility = PopulationStd

(***************************************************************************)
(* C18: the standard deviation of the summary statistics over all rates,   *)
(* in the narrative prompt and in the statistics table, is the sample      *)
(* standard deviation: the squared deviations are divided by N - 1, and a  *)
(* single rate has no standard deviation ("no value").                     *)
(***************************************************************************)
C18_SampleStd ==
    rendered =>
        /\ stats_df.std = SampleStd
        /\ ai_result.requested => ai_result.volatility = SampleStd

C18_Witness ==
    /\ rendered
    /\ ai_result.requested
    /\ N = 5
    /\ \A i \in 1..5 : Rate(i) = <<100, 101, 99, 102, 105>>[i]
    /\ stats_df.std = Sqrt(Norm(53, 10))
    /\ ai_result.volatility = Sqrt(Norm(53, 10))
    /\ PopulationStd = Sqrt(Norm(106, 25))

(***************************************************************************)
(* C19 as stated: RSI and ATR have a value on the same rows whenever no    *)
(* division by zero occurs: both are "no value" at the first 13 rows and   *)
(* both have a value from row index 13 (the 14th row) on.  The division    *)
(* of RSI is by the summed losses of the trailing 14 rows.                 *)
(***************************************************************************)
C19_AsStated ==
    Called =>
        \A i \in 1..N :
            /\ i < 14 => IsNaN(Out["RSI"][i]) /\ IsNaN(Out["ATR"][i])
            /\ (i >= 14 /\ LossSum(i - 13, i) > 0) =>
                  ~IsNaN(Out["RSI"][i]) /\ ~IsNaN(Out["ATR"][i])

(***************************************************************************)
(* C20: at every row where ATR has a non-zero value DI_Plus + DI_Minus is  *)
(* 100 (they are 100 times the summed rises and the summed falls of the    *)
(* trailing 14 deltas over the sum of both), so they are not both zero,    *)
(* DX is |DI_Plus - DI_Minus| and lies in [0,100]; ADX lies in [0,100]     *)
(* wherever it has a value; where ATR is 0 (14 flat deltas) DI_Plus,       *)
(* DI_Minus and DX are "no value", not zero.                               *)
(***************************************************************************)
C20_DirectionalIndex ==
    Called =>
        \A i \in 1..N :
            /\ (~IsNaN(Out["ATR"][i]) /\ Out["ATR"][i] # Zero) =>
                  /\ i > 14
                  /\ Out["DI_Plus"][i] =
                        Norm(100 * GainSum(i - 13, i), GainSum(i - 13, i) + LossSum(i - 13, i))
                  /\ Out["DI_Minus"][i] =
                        Norm(100 * LossSum(i - 13, i), GainSum(i - 13, i) + LossSum(i - 13, i))
                  /\ Add(Out["DI_Plus"][i], Out["DI_Minus"][i]) = R(100)
                  /\ ~(Out["DI_Plus"][i] = Zero /\ Out["DI_Minus"][i] = Zero)
                  /\ Out["DX"][i] = AbsR(Sub(Out["DI_Plus"][i], Out["DI_Minus"][i]))
                  /\ Ge(Out["DX"][i], Zero)
                  /\ Le(Out["DX"][i], R(100))
            /\ Out["ATR"][i] = Zero =>
                  /\ IsNaN(Out["DI_Plus"][i])
                  /\ IsNaN(Out["DI_Minus"][i])
                  /\ IsNaN(Out["DX"][i])
            /\ ~IsNaN(Out["ADX"][i]) =>
                  /\ Ge(Out["ADX"][i], Zero)
                  /\ Le(Out["ADX"][i], R(100))

C20_Witness ==
    /\ Called
    /\ \E i \in 1..N : Out["ATR"][i] = Zero /\ IsNaN(Out["DX"][i])
    /\ \E i \in 1..N :
          /\ Gt(Out["DI_Plus"][i], Zero)
          /\ Gt(Out["DI_Minus"][i], Zero)
          /\ Gt(Out["DX"][i], Zero)
          /\ Lt(Out["DX"][i], R(100))
    /\ Gt(Out["ADX"][N], Zero)
    /\ Lt(Out["ADX"][N], R(100))

(***************************************************************************)
(* C21 as stated: for each of the three analysis types and every           *)
(* non-empty indicator series get_ai_analysis returns a string (the        *)
(* completion's text, the fallback message or the error message) and       *)
(* never raises, so the rest of the page is drawn whatever the completion  *)
(* service does.                                                           *)
(***************************************************************************)
C21_AsStated ==
    (rendered /\ sidebar.show_ai_analysis) =>
        /\ ai_result.requested
        /\ ~ai_result.raises
        /\ ai_result.returned \in {"analysis", "fallback message", "error message"}
        /\ ~page_error
        /\ details_shown

(***************************************************************************)
(* C22 as stated: for every setting of show_macd, show_rsi and show_adx,   *)
(* whenever show_technical and show_stoch are both set the chart has a     *)
(* stochastic subplot and the Stoch_K and Stoch_D traces are drawn in it;  *)
(* and the number of subplot rows equals the number of subplot titles.     *)
(***************************************************************************)
TitleRow(title) == CHOOSE r \in 1..Len(fig.titles) : fig.titles[r] = title

C22_AsStated ==
    rendered =>
        /\ fig.rows = Len(fig.titles)
        /\ (sidebar.show_technical /\ sidebar.show_stoch) =>
              /\ \E r \in 1..Len(fig.titles) : fig.titles[r] = "stochastics"
              /\ \A name \in {"Stoch_K", "Stoch_D"} :
                    \E k \in 1..Len(fig.traces) :
                        fig.traces[k] = Trace(name, TitleRow("stochastics"))

\* C23: a click on an execute button stores one request, with st.rerun()
\* called; the run that reaches the end of the page passes the pending
\* request to execute_query once and resets it, whatever execute_query's
\* outcome; no click leads to more than one call, and after the call no
\* request is pending.
C23_OneExecutionPerClick ==
    [][/\ Len(execute_query_request') <= 1
       /\ Len(execution') <= 1
       /\ (execute_query_request' # << >> /\ execute_query_request' # execute_query_request)
             => (rerun' /\ execution' = << >>)
       /\ (execute_query_request # << >> /\ execute_query_request' = << >>)
             => /\ Len(execution') = 1
                /\ execution'[1].request = execute_query_request[1]
                /\ execution'[1].outcome \in QueryOutcomes
       /\ Len(execution') > 0 => execute_query_request' = << >>]_vars

\* a click's query was run, returned early at the row count, and nothing
\* is pending on the idle page
C23_Witness ==
    /\ ~rerun
    /\ Len(execution) = 1
    /\ execution[1].outcome = "count check fails"
    /\ execute_query_request = << >>

\* the rows the builder wrote: the ones after those of SetupRows
BuilderRows ==
    {STANDARD_SEARCH_OBJECTS[i] :
        i \in {j \in 1..Len(STANDARD_SEARCH_OBJECTS) :
                  STANDARD_SEARCH_OBJECTS[j].object_id > Len(SetupRows)}}

DateColumnNames == UNION {date_columns(Relations[i]) : i \in 1..Len(Relations)}

DateTexts == {strftime(d) : d \in Days}

FilterOperators == {"=", ">", "<", ">=", "<=", "<>", "LIKE"}

HasWhere(q) == \E k \in 1..Len(q) : q[k] = "WHERE"

WherePos(q) == CHOOSE k \in 1..Len(q) : q[k] = "WHERE"

\* the pieces an identifier takes at position p: three when it is quoted
IdentifierLen(q, p) == IF q[p] = "\"" THEN 3 ELSE 1

IdentifierAt(q, p) == IF q[p] = "\"" THEN q[p + 1] ELSE q[p]

\* the first predicate after WHERE is <date column> BETWEEN '<date>' AND
\* '<date>', and every filter operator comes after it
DateRangeFirst(q) ==
    /\ HasWhere(q)
    /\ LET p == WherePos(q) + 2
           b == p + IdentifierLen(q, p)
       IN  /\ Len(q) >= b + 11
           /\ IdentifierAt(q, p) \in DateColumnNames
           /\ SubSeq(q, b, b + 3) = <<" ", "BETWEEN", " ", "'">>
           /\ q[b + 4] \in DateTexts
           /\ SubSeq(q, b + 5, b + 9) = <<"'", " ", "AND", " ", "'">>
           /\ q[b + 10] \in DateTexts
           /\ q[b + 11] = "'"
           /\ \A i \in 1..Len(q) : q[i] \in FilterOperators => i > b + 11

\* C24: a row is saved only when the object name is not empty, a table is
\* selected and date_condition is not empty, and every query the builder
\* wrote has a WHERE clause that starts with the date range, the filter
\* conditions after it.
C24_DateRangeFirst ==
    [][/\ Len(STANDARD_SEARCH_OBJECTS') > Len(STANDARD_SEARCH_OBJECTS)
             => /\ new_object_name # ""
                /\ new_relation_select # ""
                /\ date_condition # EmptyDateCondition
       /\ \A i \in 1..Len(STANDARD_SEARCH_OBJECTS') :
             STANDARD_SEARCH_OBJECTS'[i].object_id > Len(SetupRows)
                => DateRangeFirst(STANDARD_SEARCH_OBJECTS'[i].search_query)]_vars

\* a saved query of the builder with a filter condition
C24_Witness ==
    \E row \in BuilderRows :
        \E i \in 1..Len(row.search_query) : row.search_query[i] \in FilterOperators

\* the position of the n-th filter operator of a query
NthOperator(q, n) ==
    CHOOSE i \in 1..Len(q) :
        /\ q[i] \in FilterOperators
        /\ Cardinality({j \in 1..(i - 1) : q[j] \in FilterOperators}) = n - 1

\* the word in front of the condition whose operator is at position i
JoinerBefore(q, i) ==
    LET last == i - 2
        first == IF q[last] = "\"" THEN last - 2 ELSE last
    IN  q[first - 2]

\* C25: in the generated SQL every filter condition of
\* where_conditions_list is joined to what precedes it with the logical
\* operator stored for it (the first clause of a WHERE has none).
C25_AsStated ==
    \A n \in 1..Len(where_conditions_list) :
        JoinerBefore(preview, NthOperator(preview, n))
            \in {"WHERE", where_conditions_list[n].logic_op}

\* the day a date text stands for
DayOf(text) == CHOOSE d \in Days : strftime(d) = text

\* C26: on the page as the user sees it, a date_condition that is not empty
\* has start_date <= end_date and is the form's: the date column selected
\* for the selected table, with the dates of the two date inputs.
C26_AsStated ==
    (~rerun /\ date_condition # EmptyDateCondition)
        => /\ DayOf(date_condition.start_date) <= DayOf(date_condition.end_date)
           /\ date_condition.column = date_col_select
           /\ date_condition.column \in date_columns(new_relation_select)
           /\ date_condition.start_date = strftime(date_start)
           /\ date_condition.end_date = strftime(date_end)

\* the query has a LIMIT clause: the keyword outside every string literal
HasLimitClause(q) ==
    \E i \in 1..Len(q) :
        /\ upper(q[i]) = "LIMIT"
        /\ Cardinality({j \in 1..(i - 1) : q[j] = "'"}) % 2 = 0

\* C27: execute_query runs the trimmed saved query, followed by
\* LIMIT <limit_rows> when all_rows is false and the saved query has no
\* LIMIT clause of its own, and the SQL the list showed for the clicked
\* object is the query that was run.
C27_AsStated ==
    \A n \in 1..Len(execution) :
        LET call == execution[n]
            trimmed == sanitize_query(call.request.query)
        IN  /\ call.final_query =
                   IF ~call.request.all_rows /\ ~HasLimitClause(call.request.query)
                   THEN trimmed \o <<" ", "LIMIT", " ", call.request.limit_rows>>
                   ELSE trimmed
            /\ Len(display_query) > 0 => display_query[1] = call.final_query

\* C28: a call of execute_query whose row-count check or data fetch fails
\* leaves last_result_df as it was, and after a failed row-count check the
\* data-fetch query is not issued; last_result_df changes only to the
\* result of a data fetch that succeeded.
C28_FailureKeepsResult ==
    [][/\ Len(execution') > Len(execution)
             => LET call == execution'[Len(execution')]
                IN  /\ call.outcome # "fetched" => last_result_df' = last_result_df
                    /\ call.outcome = "count check fails"
                          => \A k \in 1..Len(call.issued) : call.issued[k] # call.final_query
                    /\ call.outcome = "fetched"
                          => /\ last_result_df' = <<[query |-> call.final_query]>>
                             /\ call.issued[Len(call.issued)] = call.final_query
       /\ last_result_df' # last_result_df
             => /\ Len(execution') > Len(execution)
                /\ execution'[Len(execution')].outcome = "fetched"]_vars

\* an earlier result is still shown after a query whose data fetch failed
C28_Witness ==
    /\ Len(last_result_df) = 1
    /\ Len(execution) = 1
    /\ execution[1].outcome = "fetch fails"

\* C29: a save that adds its row leaves the ticked columns, both condition
\* lists and date_condition empty when it calls st.rerun(); a save whose
\* INSERT fails adds no row and leaves the four as they were.
C29_SaveResetsBuilder ==
    [][/\ Len(STANDARD_SEARCH_OBJECTS') > Len(STANDARD_SEARCH_OBJECTS)
             => /\ new_selected_columns_state' = {}
                /\ where_conditions_list' = << >>
                /\ order_by_conditions_list' = << >>
                /\ date_condition' = EmptyDateCondition
                /\ rerun'
       /\ (save_new_object_main /\ ~rerun')
             => /\ STANDARD_SEARCH_OBJECTS' = STANDARD_SEARCH_OBJECTS
                /\ new_selected_columns_state' = new_selected_columns_state
                /\ where_conditions_list' = where_conditions_list
                /\ order_by_conditions_list' = order_by_conditions_list
                /\ date_condition' = date_condition
                /\ date_condition' # EmptyDateCondition]_vars

\* a query with a filter condition was saved and the builder is empty
\* before the rerun
C29_Witness ==
    /\ rerun
    /\ \E row \in BuilderRows :
          \E i \in 1..Len(row.search_query) : row.search_query[i] \in FilterOperators
    /\ where_conditions_list = << >>
    /\ date_condition = EmptyDateCondition
    /\ new_selected_columns_state = {}

\* a click on an execute button of either list
ExecuteClick == exec_btn \/ fav_exec_btn

\* the step counts one execution of row i, the row of the request's query,
\* and changes no other row
CountsOnly(i) ==
    /\ STANDARD_SEARCH_OBJECTS'[i] =
           [STANDARD_SEARCH_OBJECTS[i] EXCEPT
               !.execution_count = @ + 1, !.last_executed = "CURRENT_TIMESTAMP"]
    /\ STANDARD_SEARCH_OBJECTS[i].search_query = execute_query_request'[1].query
    /\ \A j \in 1..Len(STANDARD_SEARCH_OBJECTS) :
          j # i => STANDARD_SEARCH_OBJECTS'[j] = STANDARD_SEARCH_OBJECTS[j]

\* no row's execution_count changes in the step
CountsUnchanged ==
    \A j \in 1..Len(STANDARD_SEARCH_OBJECTS) :
        STANDARD_SEARCH_OBJECTS'[j].execution_count
            = STANDARD_SEARCH_OBJECTS[j].execution_count

\* C30: every click on an execute button adds one to execution_count of
\* the clicked object alone and sets its last_executed, before the query
\* runs; no other step, execute_query included, changes a count.
C30_AsStated ==
    [][IF ExecuteClick
       THEN \E i \in 1..Len(STANDARD_SEARCH_OBJECTS) : CountsOnly(i)
       ELSE CountsUnchanged]_vars

\* C30, amended: a click adds one to execution_count of the clicked object
\* alone and sets its last_executed, or, when the UPDATE fails, changes no
\* row; in both cases the request is stored and no call of execute_query
\* has been made yet.  No other step changes a count.
C30_CountedWhenUpdated ==
    [][IF ExecuteClick
       THEN /\ \/ \E i \in 1..Len(STANDARD_SEARCH_OBJECTS) : CountsOnly(i)
               \/ STANDARD_SEARCH_OBJECTS' = STANDARD_SEARCH_OBJECTS
            /\ execution' = << >>
       ELSE CountsUnchanged]_vars

\* one of two saved objects was clicked and counted, and its query has not
\* run yet
C30_Witness ==
    /\ rerun
    /\ Len(execute_query_request) = 1
    /\ Len(execution) = 0
    /\ \E i, j \in 1..Len(STANDARD_SEARCH_OBJECTS) :
          /\ STANDARD_SEARCH_OBJECTS[i].execution_count = 1
          /\ STANDARD_SEARCH_OBJECTS[i].last_executed = "CURRENT_TIMESTAMP"
          /\ STANDARD_SEARCH_OBJECTS[i].search_query = execute_query_request[1].query
          /\ STANDARD_SEARCH_OBJECTS[j].execution_count = 0

=============================================================================
